---------------------------- MODULE Spec2Model ----------------------------
(***************************************************************************)
(* Model of the orbital element conversions of openastro/astro             *)
(* (include/astro/orbitalElementConversions.hpp).                          *)
(*                                                                         *)
(* The conversions are pure functions of Real (double) arguments.  A Real  *)
(* is modelled as a fixed-point number: the integer n stands for the real  *)
(* n / SCALE.  One grid unit is the spacing of representable numbers at    *)
(* 1.0, which is what std::numeric_limits<Real>::epsilon() is for a        *)
(* double, so Epsilon is one grid unit.  NaN and the two infinities are    *)
(* reserved values outside the range of the finite numbers.  Every         *)
(* arithmetic operation rounds to the nearest grid value, as IEEE          *)
(* arithmetic rounds to the nearest double.                                *)
(*                                                                         *)
(* A call of a conversion is a small state machine: Init draws the         *)
(* function and its arguments, the actions are the steps of its body, and  *)
(* pc = "done" is the state after the call returned or failed.  A failed   *)
(* assert aborts the call (outcome "AssertionFailed"); a throw ends it     *)
(* with the exception as outcome.                                          *)
(***************************************************************************)
EXTENDS Integers, Sequences, FiniteSets, TLC

(***************************************************************************)
(* Bounds of the model.                                                    *)
(***************************************************************************)
\* Grid values per unit: the integer n stands for the real n / SCALE.
SCALE == 1000

\* Largest value of the Integer type of the iteration cap (INT_MAX for an
\* int), scaled down so that a cap at the end of the type is drawn.
IntMax == 6

(***************************************************************************)
(* Real numbers.                                                           *)
(***************************************************************************)
\* std::numeric_limits<Real>::quiet_NaN()
NaN == -2000000001

\* std::numeric_limits<Real>::infinity()
Infinity == 2000000000

NegInfinity == -Infinity

\* std::numeric_limits<Real>::max(): the largest finite Real.
MaxReal == 500000000

\* std::numeric_limits<Real>::epsilon(): the distance from 1.0 to the next
\* representable Real, one grid unit.
Epsilon == 1

isnan(x) == x = NaN

isfinite(x) == x > NegInfinity /\ x < Infinity

\* The comparisons of IEEE numbers: false as soon as an operand is NaN.
Less(x, y) == x # NaN /\ y # NaN /\ x < y

Greater(x, y) == x # NaN /\ y # NaN /\ x > y

LessEq(x, y) == x # NaN /\ y # NaN /\ x <= y

GreaterEq(x, y) == x # NaN /\ y # NaN /\ x >= y

Abs(n) == IF n < 0 THEN -n ELSE n

Sign(n) == IF n < 0 THEN -1 ELSE IF n > 0 THEN 1 ELSE 0

\* a / b rounded to the nearest integer (ties upwards), a >= 0, b > 0.
RoundDivMagnitude(a, b) == IF a % b >= b - (a % b) THEN (a \div b) + 1 ELSE a \div b

\* n / d rounded to the nearest integer (ties away from zero), d # 0.
RoundDiv[n \in Int, d \in Int] == Sign(n) * Sign(d) * RoundDivMagnitude(Abs(n), Abs(d))

\* A result beyond the largest finite Real overflows to an infinity.
Overflow(n) == IF n > MaxReal THEN Infinity ELSE IF n < -MaxReal THEN NegInfinity ELSE n

\* std::fabs
fabs[x \in Int] == IF x = NaN THEN NaN ELSE Abs(x)

\* unary minus
Neg[x \in Int] == IF x = NaN THEN NaN ELSE -x

\* x + y
Add[x \in Int, y \in Int] ==
    IF x = NaN \/ y = NaN THEN NaN
    ELSE IF isfinite(x) /\ isfinite(y) THEN Overflow(x + y)
    ELSE IF isfinite(y) THEN x
    ELSE IF isfinite(x) \/ x = y THEN y
    ELSE NaN

\* x - y
Sub[x \in Int, y \in Int] == Add[x, Neg[y]]

\* a * b / SCALE for finite a, b >= 0, computed in parts that fit a machine
\* word; Infinity when the product is beyond MaxReal.
MulMagnitude(a, b) ==
    IF a \div SCALE > 0 /\ b \div SCALE > (MaxReal \div SCALE) \div (a \div SCALE)
    THEN Infinity
    ELSE Overflow((a \div SCALE) * (b \div SCALE) * SCALE + (a \div SCALE) * (b % SCALE)
                  + (a % SCALE) * (b \div SCALE)
                  + RoundDivMagnitude((a % SCALE) * (b % SCALE), SCALE))

\* x * y
Mul[x \in Int, y \in Int] ==
    IF x = NaN \/ y = NaN THEN NaN
    ELSE IF isfinite(x) /\ isfinite(y) THEN Sign(x) * Sign(y) * MulMagnitude(Abs(x), Abs(y))
    ELSE IF x = 0 \/ y = 0 THEN NaN
    ELSE Sign(x) * Sign(y) * Infinity

\* a * SCALE / b for finite a >= 0, b > 0, computed in parts that fit a
\* machine word; Infinity when the quotient is beyond MaxReal.
DivMagnitude(a, b) ==
    IF a \div b > MaxReal \div SCALE THEN Infinity
    ELSE IF b <= 2000000
         THEN Overflow((a \div b) * SCALE + RoundDivMagnitude((a % b) * SCALE, b))
    ELSE Overflow((a \div b) * SCALE + RoundDivMagnitude(a % b, b \div SCALE))

\* x / y; a zero divisor counts as +0.
Div[x \in Int, y \in Int] ==
    IF x = NaN \/ y = NaN THEN NaN
    ELSE IF isfinite(x) /\ isfinite(y)
         THEN (IF y # 0 THEN Sign(x) * Sign(y) * DivMagnitude(Abs(x), Abs(y))
               ELSE IF x = 0 THEN NaN ELSE Sign(x) * Infinity)
    ELSE IF isfinite(x) THEN 0
    ELSE IF isfinite(y) THEN (IF y < 0 THEN -x ELSE x)
    ELSE NaN

\* The Real nearest to the decimal num / den.
Real(num, den) == RoundDiv[num * SCALE, den]

\* const Real pi = 3.14159265358979323846;
pi == RoundDiv[31416 * SCALE, 10000]

\* 2.0 * pi
twoPi == 2 * pi

halfPi == RoundDiv[pi, 2]

(***************************************************************************)
(* Elementary functions of <cmath>, on the grid.                           *)
(***************************************************************************)
\* std::fmod(x, y) for y > 0: the remainder has the sign of x.
fmod[x \in Int, y \in Int] ==
    IF ~isfinite(x) \/ y = NaN \/ y = 0 THEN NaN
    ELSE IF x >= 0 THEN x % y ELSE -((-x) % y)

\* Sum of the power series term + term * x2 / (k (k+1)) * alt + ..., the
\* series of sin, cos, sinh and cosh, until the terms vanish on the grid.
\* The argument is <<term, x2, k, alt>>.
PowerSeries[a \in Int \X Int \X Int \X Int] ==
    IF a[1] = 0 \/ ~isfinite(a[1]) THEN a[1]
    ELSE Add[a[1], PowerSeries[<<a[4] * RoundDiv[Mul[a[1], a[2]], a[3] * (a[3] + 1)],
                                 a[2], a[3] + 2, a[4]>>]]

\* The angle r in (-2 pi, 2 pi) brought into [-pi, pi].
WrapAngle(r) == IF r > pi THEN r - twoPi ELSE IF r < -pi THEN r + twoPi ELSE r

\* The angle r in [-pi, pi] folded into [-pi / 2, pi / 2], keeping its sine.
FoldAngle(r) == IF r > halfPi THEN pi - r ELSE IF r < -halfPi THEN -pi - r ELSE r

SinSeries(y) == PowerSeries[<<y, Mul[y, y], 2, -1>>]

CosSeries(y) == PowerSeries[<<SCALE, Mul[y, y], 1, -1>>]

\* cos of an angle r in [0, pi].
CosFolded(r) == IF r > halfPi THEN -CosSeries(pi - r) ELSE CosSeries(r)

\* std::sin
sin[x \in Int] == IF ~isfinite(x) THEN NaN ELSE SinSeries(FoldAngle(WrapAngle(fmod[x, twoPi])))

\* std::cos
cos[x \in Int] == IF ~isfinite(x) THEN NaN ELSE CosFolded(Abs(WrapAngle(fmod[x, twoPi])))

\* The largest x whose sinh and cosh are finite Reals: exp(x) / 2 <= MaxReal.
MaxExponent == 13 * SCALE

\* std::sinh, overflowing beyond MaxExponent
sinh[x \in Int] ==
    IF ~isfinite(x) THEN x
    ELSE IF Abs(x) > MaxExponent THEN Sign(x) * Infinity
    ELSE PowerSeries[<<x, Mul[x, x], 2, 1>>]

\* std::cosh, overflowing beyond MaxExponent
cosh[x \in Int] ==
    IF x = NaN THEN NaN
    ELSE IF Abs(x) > MaxExponent THEN Infinity
    ELSE PowerSeries[<<SCALE, Mul[x, x], 1, 1>>]

\* The largest r in lo..hi with r * r <= n, by bisection (lo * lo <= n).
\* The argument is <<n, lo, hi>>.
SqrtSearch[a \in Int \X Int \X Int] ==
    IF a[2] >= a[3] THEN a[2]
    ELSE IF ((a[2] + a[3] + 1) \div 2) * ((a[2] + a[3] + 1) \div 2) <= a[1]
         THEN SqrtSearch[<<a[1], (a[2] + a[3] + 1) \div 2, a[3]>>]
         ELSE SqrtSearch[<<a[1], a[2], ((a[2] + a[3] + 1) \div 2) - 1>>]

\* The integer nearest to the square root of n, from its floor r.
SqrtRound(n, r) == IF n - r * r > r THEN r + 1 ELSE r

\* sqrt of a finite x >= 0: the integer square root of x * SCALE, rounded;
\* a large x is quartered first so that x * SCALE fits a machine word.
SqrtFinite[x \in Int] ==
    IF x > 2000000 THEN 2 * SqrtFinite[RoundDiv[x, 4]]
    ELSE SqrtRound(x * SCALE, SqrtSearch[<<x * SCALE, 0, 46000>>])

\* std::sqrt
sqrt[x \in Int] ==
    IF x = NaN \/ x < 0 THEN NaN
    ELSE IF x = Infinity THEN Infinity
    ELSE SqrtFinite[x]

\* std::pow(x, 2.0)
pow2[x \in Int] == Mul[x, x]

\* The angle t in lo..hi, lo >= 0, hi <= pi / 2, with tan(t) nearest to y / x
\* for x, y >= 0 not both zero, by bisection on sin(t) * x <= cos(t) * y.
\* The argument is <<y, x, lo, hi, mid>> with mid the middle of lo..hi.
AtanSearch[a \in Int \X Int \X Int \X Int \X Int] ==
    IF a[3] >= a[4] THEN a[3]
    ELSE IF sin[a[5]] * a[2] <= cos[a[5]] * a[1]
         THEN AtanSearch[<<a[1], a[2], a[5], a[4], (a[5] + a[4] + 1) \div 2>>]
         ELSE AtanSearch[<<a[1], a[2], a[3], a[5] - 1, (a[3] + a[5]) \div 2>>]

\* atan(y / x) in [0, pi / 2] for finite x, y >= 0 not both zero; large
\* arguments are scaled down so that the products fit a machine word.
AtanFirstQuadrant(y, x) ==
    IF x > 1000000 \/ y > 1000000
    THEN AtanSearch[<<y \div SCALE, x \div SCALE, 0, halfPi, (halfPi + 1) \div 2>>]
    ELSE AtanSearch[<<y, x, 0, halfPi, (halfPi + 1) \div 2>>]

\* The angle of the quadrant of (x, y) whose reference angle is t.
AtanQuadrant(y, x, t) ==
    IF x >= 0 THEN (IF y < 0 THEN -t ELSE t)
    ELSE IF y < 0 THEN t - pi ELSE pi - t

\* std::atan2(y, x), in [-pi, pi].
atan2[y \in Int, x \in Int] ==
    IF x = NaN \/ y = NaN THEN NaN
    ELSE IF isfinite(x) /\ isfinite(y)
         THEN (IF x = 0 /\ y = 0 THEN 0
               ELSE AtanQuadrant(y, x, AtanFirstQuadrant(Abs(y), Abs(x))))
    ELSE IF isfinite(y) THEN AtanQuadrant(y, x, 0)
    ELSE IF isfinite(x) THEN AtanQuadrant(y, 1, halfPi)
    ELSE AtanQuadrant(y, x, RoundDiv[pi, 4])

\* std::acos, in [0, pi].
acos[x \in Int] ==
    IF x = NaN \/ x > SCALE \/ x < -SCALE THEN NaN
    ELSE atan2[sqrt[SCALE - Mul[x, x]], x]

\* u + u^3 / 3 + u^5 / 5 + ..., the series of atanh, until the powers vanish.
\* The argument is <<power, u2, k>>.
AtanhSeries[a \in Int \X Int \X Int] ==
    IF a[1] = 0 THEN 0
    ELSE RoundDiv[a[1], a[3]] + AtanhSeries[<<Mul[a[1], a[2]], a[2], a[3] + 2>>]

\* 2 atanh(u)
TwiceAtanh(u) == 2 * AtanhSeries[<<u, Mul[u, u], 1>>]

ln2 == RoundDiv[6931 * SCALE, 10000]

\* ln(x) for finite x > 0: halve or double x into [1/2, 2], then
\* ln(x) = 2 atanh((x - 1) / (x + 1)).
LogPositive[x \in Int] ==
    IF x > 2 * SCALE THEN ln2 + LogPositive[RoundDiv[x, 2]]
    ELSE IF 2 * x < SCALE THEN LogPositive[2 * x] - ln2
    ELSE TwiceAtanh(RoundDiv[(x - SCALE) * SCALE, x + SCALE])

\* std::log
log[x \in Int] ==
    IF x = NaN \/ x < 0 THEN NaN
    ELSE IF x = 0 THEN NegInfinity
    ELSE IF x = Infinity THEN Infinity
    ELSE LogPositive[x]

(***************************************************************************)
(* State of one call.                                                      *)
(***************************************************************************)
VARIABLES
    function,                   \* the conversion that is called
    pc,                         \* position in its body
    outcome,                    \* "running", "returned", or the failure
    result,                     \* the returned Real, NaN until then
    eccentricity,               \* argument: eccentricity
    anomaly,                    \* argument: true, eccentric or mean anomaly
    branch,                     \* branch a dispatch wrapper took
    rootFindingTolerance,       \* argument of the Newton-Raphson solver
    maximumIterations,          \* argument of the Newton-Raphson solver
    meanAnomalyShifted,         \* local of the Newton-Raphson solver
    initialGuess,               \* local of the Newton-Raphson solver
    eccentricAnomaly,           \* local of the Newton-Raphson solver
    eccentricAnomalyDifference, \* local of the Newton-Raphson solver
    i,                          \* loop counter of the Newton-Raphson solver
    updates,                    \* Newton updates performed so far (history)
    cartesianElements,          \* argument: Cartesian state vector
    gravitationalParameter,     \* argument: gravitational parameter
    tolerance,                  \* argument: tolerance of the limit cases
    keplerianElements,          \* the vector convertCartesianToKeplerianElements returns
    locals,                     \* locals of convertCartesianToKeplerianElements
    iterations,                 \* argument of the bisection solver: halving steps
    bisection,                  \* locals of the bisection solver: M, E, F, E0, D, J
    roundTrip,                  \* what a round trip began with: true anomaly and
                                \* eccentric anomaly, or Cartesian state
    peer                        \* a second invocation of the Newton-Raphson solver,
                                \* running interleaved with the first

anomalyVars == <<eccentricity, anomaly, branch>>

newtonVars ==
    <<rootFindingTolerance, maximumIterations, meanAnomalyShifted, initialGuess,
      eccentricAnomaly, eccentricAnomalyDifference, i, updates>>

cartesianVars ==
    <<cartesianElements, gravitationalParameter, tolerance, keplerianElements, locals>>

solverVars == <<iterations, bisection, roundTrip, peer>>

vars == <<function, pc, outcome, result, anomalyVars, newtonVars, cartesianVars, solverVars>>

\* A Vector of three Reals that are not set yet.
NaNVector == <<NaN, NaN, NaN>>

\* The locals of convertCartesianToKeplerianElements before they are set.
NoLocals ==
    [ position |-> NaNVector, velocity |-> NaNVector,
      positionNorm |-> NaN, velocityNormSquared |-> NaN,
      angularMomentum |-> NaNVector, angularMomentumNormSquared |-> NaN,
      angularMomentumNorm |-> NaN, positionDotVelocity |-> NaN,
      eccentricityVector |-> NaNVector, eccentricityNormSquared |-> NaN,
      eccentricity |-> NaN, specificTotalEnergy |-> NaN,
      semiMajorAxis |-> NaN, semiLatusRectum |-> NaN,
      inclination |-> NaN, ascendingNodeVector |-> NaNVector,
      ascendingNodeVectorNorm |-> NaN, longitudeOfAscendingNode |-> NaN,
      argumentOfPeriapsis |-> NaN, trueAnomaly |-> NaN,
      trueLongitudeOfPeriapsis |-> NaN, argumentOfLatitude |-> NaN,
      trueLongitude |-> NaN ]

\* The call is not one of convertCartesianToKeplerianElements.
NoCartesianCall ==
    /\ cartesianElements = <<>>
    /\ gravitationalParameter = NaN
    /\ tolerance = NaN
    /\ keplerianElements = <<>>
    /\ locals = NoLocals

\* The locals of convertEllipticalMeanAnomalyToEccentricAnomalyBS before they
\* are set.
NoBisection == [M |-> NaN, E |-> NaN, F |-> NaN, E0 |-> NaN, D |-> NaN, J |-> 0]

\* The call is not part of a round trip of anomalies.
NoRoundTrip == [trueAnomaly |-> NaN, eccentricAnomaly |-> NaN, state |-> <<>>]

\* No second invocation runs.
NoPeer ==
    [ pc |-> "none", outcome |-> "none", result |-> NaN, eccentricity |-> NaN,
      meanAnomaly |-> NaN, rootFindingTolerance |-> NaN, maximumIterations |-> 0,
      meanAnomalyShifted |-> NaN, eccentricAnomaly |-> NaN, i |-> 0 ]

\* The call is neither one of the bisection solver nor part of a round trip,
\* and it runs alone.
NoSolverCall ==
    /\ iterations = 0
    /\ bisection = NoBisection
    /\ roundTrip = NoRoundTrip
    /\ peer = NoPeer

\* What a call hands back: how it ended, its value, and for a dispatch
\* wrapper the branch it ran.
Returned(value, taken) == [outcome |-> "returned", value |-> value, branch |-> taken]

Failed(failure) == [outcome |-> failure, value |-> NaN, branch |-> "none"]

(***************************************************************************)
(* Arguments drawn for the calls.                                          *)
(***************************************************************************)
\* Eccentricities: negative, circular, elliptical, the neighbours of 1 on the
\* grid, parabolic, hyperbolic.
Eccentricities ==
    { Real(-152, 1000), 0, Real(146, 1000), Real(6, 10), Real(9, 10),
      SCALE - 2 * Epsilon, SCALE - Epsilon, SCALE, SCALE + Epsilon,
      SCALE + 2 * Epsilon, Real(2345, 1000), Real(3, 1) }

\* Anomalies: below zero, in every quadrant, beyond one revolution.
Anomalies ==
    { Real(-34, 10), Real(-1, 1), 0, Real(1, 10), Real(5291, 10000), Real(1234, 1000),
      Real(25, 10), pi, Real(33, 10), Real(4, 1), Real(6, 1), Real(7, 1) }

\* Stopping tolerances.  The default, 1.0e-3 * epsilon, lies between 0 and
\* one grid unit: a grid value is below it exactly when it is below Epsilon.
RootFindingTolerances == { Epsilon, Real(1, 100) }

\* Iteration caps: negative, zero, small, the largest Integer.
IterationCaps == -2 .. IntMax

(***************************************************************************)
(* Mean anomaly -> eccentric anomaly, Newton-Raphson.                      *)
(***************************************************************************)
\* f(E) = E - e * sin(E) - M
computeEllipticalKeplerFunction(E, e, M) == Sub[Sub[E, Mul[e, sin[E]]], M]

\* df/dE = 1 - e * cos(E)
computeFirstDerivativeEllipticalKeplerFunction(E, e) == Sub[SCALE, Mul[e, cos[E]]]

\* The assert without its lower bound.
NewtonRaphsonEccentricityValidNoLowerBound(e) == Less(e, SCALE)

\* assert(eccentricity >= 0.0 && eccentricity < (1.0 - 1.0e-11)).  The bound
\* 1.0 - 1.0e-11 lies strictly between SCALE - Epsilon and SCALE on the grid.
NewtonRaphsonEccentricityValid(e) == GreaterEq(e, 0) /\ Less(e, SCALE)

\* meanAnomalyShifted = fmod(meanAnomaly, 2 pi), plus 2 pi when negative.
ShiftMeanAnomaly(M) ==
    LET shifted == fmod[M, twoPi]
    IN  IF Less(shifted, 0) THEN Add[shifted, twoPi] ELSE shifted

\* The initial guess with pi itself on the side of the larger anomalies.
InitialGuessPiAbove(shifted, e) ==
    IF GreaterEq(shifted, pi) THEN Sub[shifted, e] ELSE Add[shifted, e]

\* The initial guess for the eccentric anomaly.
InitialGuess(shifted, e) ==
    IF Greater(shifted, pi) THEN Sub[shifted, e] ELSE Add[shifted, e]

\* nextEccentricAnomaly
NewtonStep(E, e, M) ==
    Sub[E, Div[computeEllipticalKeplerFunction(E, e, M),
               computeFirstDerivativeEllipticalKeplerFunction(E, e)]]

\* if (eccentricAnomalyDifference < rootFindingTolerance) break;
StoppingTest(difference, tol) == Less(difference, tol)

\* maximumIterations + 1 in the Integer type.  Beyond the largest Integer
\* the addition overflows: undefined for a signed type, where a build wraps
\* to the smallest Integer or goes on as if the sum were representable.
IncrementOutcomes(cap) ==
    IF cap < IntMax THEN {cap + 1} ELSE {-IntMax - 1, IntMax + 1}

\* for (int i = 0; i < maximumIterations + 1; ++i): the values the
\* condition can take.
LoopCondition(counter, cap) == { counter < sum : sum \in IncrementOutcomes(cap) }

\* if (i == maximumIterations) throw
CapReached(counter, cap) == counter = cap

NR == "convertEllipticalMeanAnomalyToEccentricAnomaly"

InitNewtonRaphson ==
    /\ function = NR
    /\ pc = "assert"
    /\ outcome = "running"
    /\ result = NaN
    /\ eccentricity \in Eccentricities
    /\ anomaly \in Anomalies
    /\ branch = "none"
    /\ rootFindingTolerance \in RootFindingTolerances
    /\ maximumIterations \in IterationCaps
    /\ meanAnomalyShifted = NaN
    /\ initialGuess = NaN
    /\ eccentricAnomaly = NaN
    /\ eccentricAnomalyDifference = NaN
    /\ i = 0
    /\ updates = 0
    /\ NoSolverCall
    /\ NoCartesianCall

\* Line 790: the assert on the eccentricity.
NRAssert ==
    /\ function = NR /\ pc = "assert"
    /\ IF NewtonRaphsonEccentricityValid(eccentricity)
       THEN pc' = "shift" /\ outcome' = outcome
       ELSE pc' = "done" /\ outcome' = "AssertionFailed"
    /\ UNCHANGED <<solverVars, cartesianVars, function, result, anomalyVars, newtonVars>>

\* Lines 794-799: the mean anomaly is brought into [0, 2 pi).
NRShift ==
    /\ function = NR /\ pc = "shift"
    /\ meanAnomalyShifted' = ShiftMeanAnomaly(anomaly)
    /\ pc' = "guess"
    /\ UNCHANGED <<solverVars, cartesianVars, function, outcome, result, anomalyVars, rootFindingTolerance,
                   maximumIterations, initialGuess, eccentricAnomaly,
                   eccentricAnomalyDifference, i, updates>>

\* Lines 801-821: the initial guess, and the loop is entered with i = 0.
NRGuess ==
    /\ function = NR /\ pc = "guess"
    /\ initialGuess' = InitialGuess(meanAnomalyShifted, eccentricity)
    /\ eccentricAnomaly' = initialGuess'
    /\ i' = 0
    /\ pc' = "loop"
    /\ UNCHANGED <<solverVars, cartesianVars, function, outcome, result, anomalyVars, rootFindingTolerance,
                   maximumIterations, meanAnomalyShifted, eccentricAnomalyDifference,
                   updates>>

\* Line 821: the loop condition i < maximumIterations + 1 is false.
NRLoopExit ==
    /\ function = NR /\ pc = "loop"
    /\ FALSE \in LoopCondition(i, maximumIterations)
    /\ pc' = "return"
    /\ UNCHANGED <<solverVars, cartesianVars, function, outcome, result, anomalyVars, newtonVars>>

\* Lines 823-827: the iteration cap is reached.
NRThrow ==
    /\ function = NR /\ pc = "loop"
    /\ TRUE \in LoopCondition(i, maximumIterations)
    /\ CapReached(i, maximumIterations)
    /\ outcome' = "MaxIterationsExceeded"
    /\ pc' = "done"
    /\ UNCHANGED <<solverVars, cartesianVars, function, result, anomalyVars, newtonVars>>

\* Lines 829-845: one Newton update, the stopping test, ++i.
NRUpdate ==
    /\ function = NR /\ pc = "loop"
    /\ TRUE \in LoopCondition(i, maximumIterations)
    /\ ~CapReached(i, maximumIterations)
    /\ LET nextEccentricAnomaly ==
               NewtonStep(eccentricAnomaly, eccentricity, meanAnomalyShifted)
       IN  /\ eccentricAnomalyDifference' = Sub[eccentricAnomaly, nextEccentricAnomaly]
           /\ eccentricAnomaly' = nextEccentricAnomaly
    /\ updates' = updates + 1
    /\ IF StoppingTest(eccentricAnomalyDifference', rootFindingTolerance)
       THEN pc' = "return" /\ i' = i
       ELSE pc' = "loop" /\ i' = i + 1
    /\ UNCHANGED <<solverVars, cartesianVars, function, outcome, result, anomalyVars, rootFindingTolerance,
                   maximumIterations, meanAnomalyShifted, initialGuess>>

\* Line 848: return eccentricAnomaly.
NRReturn ==
    /\ function = NR /\ pc = "return"
    /\ result' = eccentricAnomaly
    /\ outcome' = "returned"
    /\ pc' = "done"
    /\ UNCHANGED <<solverVars, cartesianVars, function, anomalyVars, newtonVars>>

(***************************************************************************)
(* Two invocations of the Newton-Raphson solver interleaved.  The second   *)
(* has its arguments and its locals in its own frame, the record peer: the *)
(* solver has automatic variables only, no static and no global one.       *)
(***************************************************************************)
\* The frame of an invocation at its entry.
EntryFrame(e, M, tol, cap) ==
    [ pc |-> "assert", outcome |-> "running", result |-> NaN, eccentricity |-> e,
      meanAnomaly |-> M, rootFindingTolerance |-> tol, maximumIterations |-> cap,
      meanAnomalyShifted |-> NaN, eccentricAnomaly |-> NaN, i |-> 0 ]

\* The estimate an update starts from, were eccentricAnomaly a static
\* variable that the invocations share.
OwnEstimateStatic(frame) ==
    IF isnan(eccentricAnomaly) THEN frame.eccentricAnomaly ELSE eccentricAnomaly

\* The estimate an update starts from: the local of the invocation, line 806.
OwnEstimate(frame) == frame.eccentricAnomaly

\* One step of an invocation on its frame: lines 790, 794-799, 801-821,
\* 821-827, 829-845, 848.
SolverStep(frame) ==
    CASE frame.pc = "assert" ->
           IF NewtonRaphsonEccentricityValid(frame.eccentricity)
           THEN [frame EXCEPT !.pc = "shift"]
           ELSE [frame EXCEPT !.pc = "done", !.outcome = "AssertionFailed"]
      [] frame.pc = "shift" ->
           [frame EXCEPT !.meanAnomalyShifted = ShiftMeanAnomaly(frame.meanAnomaly),
                         !.pc = "guess"]
      [] frame.pc = "guess" ->
           [frame EXCEPT !.eccentricAnomaly =
                             InitialGuess(frame.meanAnomalyShifted, frame.eccentricity),
                         !.i = 0,
                         !.pc = "loop"]
      [] frame.pc = "loop" ->
           IF FALSE \in LoopCondition(frame.i, frame.maximumIterations)
           THEN [frame EXCEPT !.pc = "return"]
           ELSE IF CapReached(frame.i, frame.maximumIterations)
           THEN [frame EXCEPT !.pc = "done", !.outcome = "MaxIterationsExceeded"]
           ELSE IF StoppingTest(Sub[OwnEstimate(frame),
                                    NewtonStep(OwnEstimate(frame), frame.eccentricity,
                                               frame.meanAnomalyShifted)],
                                frame.rootFindingTolerance)
           THEN [frame EXCEPT !.eccentricAnomaly =
                                  NewtonStep(OwnEstimate(frame), frame.eccentricity,
                                             frame.meanAnomalyShifted),
                              !.pc = "return"]
           ELSE [frame EXCEPT !.eccentricAnomaly =
                                  NewtonStep(OwnEstimate(frame), frame.eccentricity,
                                             frame.meanAnomalyShifted),
                              !.i = frame.i + 1]
      [] frame.pc = "return" ->
           [frame EXCEPT !.result = frame.eccentricAnomaly, !.outcome = "returned",
                         !.pc = "done"]
      [] OTHER -> frame

\* Arguments of the two invocations: the caps are ones the loop can count to.
InterleavedEccentricities == { Real(-152, 1000), Real(146, 1000), Real(9, 10) }

InterleavedAnomalies == { Real(1, 1), Real(4, 1) }

InterleavedCaps == { 1, 3 }

InitInterleaved ==
    /\ function = NR
    /\ pc = "assert"
    /\ outcome = "running"
    /\ result = NaN
    /\ eccentricity \in InterleavedEccentricities
    /\ anomaly \in InterleavedAnomalies
    /\ branch = "none"
    /\ rootFindingTolerance = Epsilon
    /\ maximumIterations \in InterleavedCaps
    /\ meanAnomalyShifted = NaN
    /\ initialGuess = NaN
    /\ eccentricAnomaly = NaN
    /\ eccentricAnomalyDifference = NaN
    /\ i = 0
    /\ updates = 0
    /\ iterations = 0
    /\ bisection = NoBisection
    /\ roundTrip = NoRoundTrip
    /\ peer \in { EntryFrame(e, M, Epsilon, cap) :
                    e \in InterleavedEccentricities, M \in InterleavedAnomalies,
                    cap \in InterleavedCaps }
    /\ NoCartesianCall

\* The second invocation takes its next step, whatever the first is at.
PeerStep ==
    /\ peer.pc \notin { "none", "done" }
    /\ peer' = SolverStep(peer)
    /\ UNCHANGED <<function, pc, outcome, result, anomalyVars, newtonVars, cartesianVars,
                   iterations, bisection, roundTrip>>

(***************************************************************************)
(* Mean anomaly -> eccentric anomaly, binary search.                       *)
(***************************************************************************)
BS == "convertEllipticalMeanAnomalyToEccentricAnomalyBS"

InitBisection ==
    /\ function = BS
    /\ pc = "assert"
    /\ outcome = "running"
    /\ result = NaN
    /\ eccentricity \in Eccentricities
    /\ anomaly \in Anomalies
    /\ branch = "none"
    /\ rootFindingTolerance = 0
    /\ maximumIterations = 0
    /\ meanAnomalyShifted = NaN
    /\ initialGuess = NaN
    /\ eccentricAnomaly = NaN
    /\ eccentricAnomalyDifference = NaN
    /\ i = 0
    /\ updates = 0
    /\ iterations \in IterationCaps
    /\ bisection = NoBisection
    /\ peer = NoPeer
    /\ roundTrip = NoRoundTrip
    /\ NoCartesianCall

\* assert(eccentricity >= 0.0 && eccentricity < 1.0), line 876.
BisectionEccentricityValid(e) == GreaterEq(e, 0) /\ Less(e, SCALE)

\* The shift without the addition of 2 pi to a negative remainder.
ShiftMeanAnomalyBSNoAddition(meanAnomaly) == fmod[meanAnomaly, twoPi]

\* Lines 881-885: meanAnomalyShifted = std::fmod(meanAnomaly, 2.0 * pi), plus
\* 2.0 * pi when it is negative.
ShiftMeanAnomalyBS(meanAnomaly) ==
    IF Less(fmod[meanAnomaly, twoPi], 0)
    THEN Add[fmod[meanAnomaly, twoPi], twoPi]
    ELSE fmod[meanAnomaly, twoPi]

\* (Real(0) < x) - (x < Real(0)), lines 893 and 914.
Signum[x \in Int] == IF Less(0, x) THEN SCALE ELSE IF Less(x, 0) THEN -SCALE ELSE 0

\* (int)x, line 895: the Real with the fraction cut off.  The conversion of a
\* Real that is not finite or beyond the Integers is undefined.
IntCastOutcomes(x) ==
    IF isfinite(x) /\ Abs(x) \div SCALE <= IntMax
    THEN { Sign(x) * (Abs(x) \div SCALE) * SCALE }
    ELSE { (-IntMax - 1) * SCALE, 0, IntMax * SCALE }

\* Line 895 with (int)M = whole: M = (M - (int)M) * 2.0 * pi * F, where M is
\* fabs(M) / (2.0 * pi) of line 894 and F the sign of line 893.
Unwound[shifted \in Int, whole \in Int] ==
    Mul[Mul[Mul[Sub[Div[fabs[shifted], twoPi], whole], 2 * SCALE], pi], Signum[shifted]]

\* Lines 896-899: if (M < 0) M = M + 2.0 * pi.
Wrapped[M \in Int] == IF Less(M, 0) THEN Add[M, twoPi] ELSE M

\* Lines 901-906: <<M, F>>, the anomaly folded into [0, pi] and the sign of
\* the result.
Folded[M \in Int] == IF Greater(M, pi) THEN <<Sub[twoPi, M], -SCALE>> ELSE <<M, SCALE>>

\* Lines 912-914: E0 after one step of the search.
Halved[M \in Int, E \in Int, E0 \in Int, D \in Int] ==
    Add[E0, Mul[D, Signum[Sub[M, Sub[E0, Mul[E, sin[E0]]]]]]]

\* The loop condition with the bound included.
BisectionLoopConditionClosed(J, n) == J <= n

\* J < iterations, line 910.
BisectionLoopCondition(J, n) == J < n

\* Line 876: the assert on the eccentricity.
BSAssert ==
    /\ function = BS /\ pc = "assert"
    /\ IF BisectionEccentricityValid(eccentricity)
       THEN pc' = "shift" /\ outcome' = outcome
       ELSE pc' = "done" /\ outcome' = "AssertionFailed"
    /\ UNCHANGED <<function, result, anomalyVars, newtonVars, cartesianVars, solverVars>>

\* Lines 880-885: the mean anomaly is brought into [0, 2 pi).
BSShift ==
    /\ function = BS /\ pc = "shift"
    /\ meanAnomalyShifted' = ShiftMeanAnomalyBS(anomaly)
    /\ pc' = "fold"
    /\ UNCHANGED <<function, outcome, result, anomalyVars, cartesianVars, solverVars,
                   rootFindingTolerance, maximumIterations, initialGuess, eccentricAnomaly,
                   eccentricAnomalyDifference, i, updates>>

\* The fold with M = pi folded as well: if (M >= pi).
BSFoldClosed ==
    /\ function = BS /\ pc = "fold"
    /\ \E whole \in IntCastOutcomes(Div[fabs[meanAnomalyShifted], twoPi]) :
          bisection' =
              [ M |-> IF GreaterEq(Wrapped[Unwound[meanAnomalyShifted, whole]], pi)
                      THEN Sub[twoPi, Wrapped[Unwound[meanAnomalyShifted, whole]]]
                      ELSE Wrapped[Unwound[meanAnomalyShifted, whole]],
                E |-> eccentricity,
                F |-> IF GreaterEq(Wrapped[Unwound[meanAnomalyShifted, whole]], pi)
                      THEN -SCALE ELSE SCALE,
                E0 |-> Mul[pi, Real(5, 10)],
                D |-> Mul[pi, Real(25, 100)],
                J |-> 0 ]
    /\ pc' = "loop"
    /\ UNCHANGED <<function, outcome, result, anomalyVars, newtonVars, cartesianVars,
                   iterations, roundTrip, peer>>

\* Lines 887-910: M is unwound and folded into [0, pi], the search starts at
\* E0 = pi / 2 with the step D = pi / 4 and J = 0.
BSFold ==
    /\ function = BS /\ pc = "fold"
    /\ \E whole \in IntCastOutcomes(Div[fabs[meanAnomalyShifted], twoPi]) :
          bisection' =
              [ M |-> Folded[Wrapped[Unwound[meanAnomalyShifted, whole]]][1],
                E |-> eccentricity,
                F |-> Folded[Wrapped[Unwound[meanAnomalyShifted, whole]]][2],
                E0 |-> Mul[pi, Real(5, 10)],
                D |-> Mul[pi, Real(25, 100)],
                J |-> 0 ]
    /\ pc' = "loop"
    /\ UNCHANGED <<function, outcome, result, anomalyVars, newtonVars, cartesianVars,
                   iterations, roundTrip, peer>>

\* The step of the search with D halved before E0 is moved.
BSHalveStepHalvedFirst ==
    /\ function = BS /\ pc = "loop"
    /\ BisectionLoopCondition(bisection.J, iterations)
    /\ bisection' =
         [bisection EXCEPT
            !.E0 = Halved[bisection.M, bisection.E, bisection.E0,
                          Mul[bisection.D, Real(5, 10)]],
            !.D = Mul[bisection.D, Real(5, 10)],
            !.J = bisection.J + 1]
    /\ updates' = updates + 1
    /\ UNCHANGED <<function, pc, outcome, result, anomalyVars, cartesianVars,
                   iterations, roundTrip, peer,
                   rootFindingTolerance, maximumIterations, meanAnomalyShifted, initialGuess,
                   eccentricAnomaly, eccentricAnomalyDifference, i>>

\* Lines 910-916: one step of the search: E0 moves by D towards the root, D
\* is halved, J++.
BSHalve ==
    /\ function = BS /\ pc = "loop"
    /\ BisectionLoopCondition(bisection.J, iterations)
    /\ bisection' =
         [bisection EXCEPT
            !.E0 = Halved[bisection.M, bisection.E, bisection.E0, bisection.D],
            !.D = Mul[bisection.D, Real(5, 10)],
            !.J = bisection.J + 1]
    /\ updates' = updates + 1
    /\ UNCHANGED <<function, pc, outcome, result, anomalyVars, cartesianVars,
                   iterations, roundTrip, peer,
                   rootFindingTolerance, maximumIterations, meanAnomalyShifted, initialGuess,
                   eccentricAnomaly, eccentricAnomalyDifference, i>>

\* The return without E0 *= F.
BSReturnUnsigned ==
    /\ function = BS /\ pc = "loop"
    /\ ~BisectionLoopCondition(bisection.J, iterations)
    /\ bisection' = bisection
    /\ result' = bisection.E0
    /\ outcome' = "returned"
    /\ pc' = "done"
    /\ UNCHANGED <<function, anomalyVars, newtonVars, cartesianVars, iterations, roundTrip, peer>>

\* Lines 910 and 918-920: the loop ends; E0 *= F; return E0.
BSReturn ==
    /\ function = BS /\ pc = "loop"
    /\ ~BisectionLoopCondition(bisection.J, iterations)
    /\ bisection' = [bisection EXCEPT !.E0 = Mul[bisection.E0, bisection.F]]
    /\ result' = Mul[bisection.E0, bisection.F]
    /\ outcome' = "returned"
    /\ pc' = "done"
    /\ UNCHANGED <<function, anomalyVars, newtonVars, cartesianVars, iterations, roundTrip, peer>>

(***************************************************************************)
(* Anomaly conversions in closed form.                                     *)
(***************************************************************************)
\* The assert with the parabola let through.
EllipticalEccentricityClosed(e) == GreaterEq(e, 0) /\ LessEq(e, SCALE)

\* assert(eccentricity >= 0.0 && eccentricity < 1.0)
EllipticalEccentricity(e) == GreaterEq(e, 0) /\ Less(e, SCALE)

\* assert(eccentricity > 1.0)
HyperbolicEccentricity(e) == Greater(e, SCALE)

\* The assert without its test for a parabola.
DispatchEccentricityAcceptedNoParabolaTest(e) == GreaterEq(e, 0)

\* assert(eccentricity >= 0.0 && fabs(eccentricity - 1.0) > epsilon), the
\* assert of the three dispatch wrappers.
DispatchEccentricityAccepted(e) ==
    GreaterEq(e, 0) /\ Greater(fabs[Sub[e, SCALE]], Epsilon)

convertTrueAnomalyToEllipticalEccentricAnomaly(trueAnomaly, e) ==
    IF ~EllipticalEccentricity(e) THEN Failed("AssertionFailed")
    ELSE LET denominator == Add[SCALE, Mul[e, cos[trueAnomaly]]]
             sineOfEccentricAnomaly ==
                 Div[Mul[sqrt[Sub[SCALE, pow2[e]]], sin[trueAnomaly]], denominator]
             cosineOfEccentricAnomaly == Div[Add[e, cos[trueAnomaly]], denominator]
         IN  Returned(atan2[sineOfEccentricAnomaly, cosineOfEccentricAnomaly], "none")

convertTrueAnomalyToHyperbolicEccentricAnomaly(trueAnomaly, e) ==
    IF ~HyperbolicEccentricity(e) THEN Failed("AssertionFailed")
    ELSE LET denominator == Add[SCALE, cos[trueAnomaly]]
             hyperbolicSineOfHyperbolicEccentricAnomaly ==
                 Div[Mul[sqrt[Sub[pow2[e], SCALE]], sin[trueAnomaly]], denominator]
             hyperbolicCosineOfHyperbolicEccentricAnomaly ==
                 Div[Add[cos[trueAnomaly], e], denominator]
             angle == Div[hyperbolicSineOfHyperbolicEccentricAnomaly,
                          hyperbolicCosineOfHyperbolicEccentricAnomaly]
         IN  Returned(Mul[Real(5, 10), Sub[log[Add[SCALE, angle]], log[Sub[SCALE, angle]]]],
                      "none")

\* The wrapper with an elliptical branch that leaves out the circle.
convertTrueAnomalyToEccentricAnomalyNoCircle(trueAnomaly, e) ==
    IF ~DispatchEccentricityAccepted(e) THEN Failed("AssertionFailed")
    ELSE IF Greater(e, 0) /\ Less(e, SCALE)
         THEN [convertTrueAnomalyToEllipticalEccentricAnomaly(trueAnomaly, e)
                   EXCEPT !.branch = "elliptical"]
    ELSE IF Greater(e, SCALE)
         THEN [convertTrueAnomalyToHyperbolicEccentricAnomaly(trueAnomaly, e)
                   EXCEPT !.branch = "hyperbolic"]
    ELSE Returned(0, "none")

convertTrueAnomalyToEccentricAnomaly(trueAnomaly, e) ==
    IF ~DispatchEccentricityAccepted(e) THEN Failed("AssertionFailed")
    ELSE IF GreaterEq(e, 0) /\ Less(e, SCALE)
         THEN [convertTrueAnomalyToEllipticalEccentricAnomaly(trueAnomaly, e)
                   EXCEPT !.branch = "elliptical"]
    ELSE IF Greater(e, SCALE)
         THEN [convertTrueAnomalyToHyperbolicEccentricAnomaly(trueAnomaly, e)
                   EXCEPT !.branch = "hyperbolic"]
    ELSE Returned(0, "none")

convertEllipticalEccentricAnomalyToMeanAnomaly(ellipticalEccentricAnomaly, e) ==
    IF ~EllipticalEccentricity(e) THEN Failed("AssertionFailed")
    ELSE Returned(Sub[ellipticalEccentricAnomaly, Mul[e, sin[ellipticalEccentricAnomaly]]],
                  "none")

convertHyperbolicEccentricAnomalyToMeanAnomaly(hyperbolicEccentricAnomaly, e) ==
    IF ~HyperbolicEccentricity(e) THEN Failed("AssertionFailed")
    ELSE Returned(Sub[Mul[e, sinh[hyperbolicEccentricAnomaly]], hyperbolicEccentricAnomaly],
                  "none")

convertEccentricAnomalyToMeanAnomaly(eccentricAnomalyArgument, e) ==
    IF ~DispatchEccentricityAccepted(e) THEN Failed("AssertionFailed")
    ELSE IF GreaterEq(e, 0) /\ Less(e, SCALE)
         THEN [convertEllipticalEccentricAnomalyToMeanAnomaly(eccentricAnomalyArgument, e)
                   EXCEPT !.branch = "elliptical"]
    ELSE IF Greater(e, SCALE)
         THEN [convertHyperbolicEccentricAnomalyToMeanAnomaly(eccentricAnomalyArgument, e)
                   EXCEPT !.branch = "hyperbolic"]
    ELSE Returned(0, "none")

\* The conversion taking the angle from its cosine alone.
convertEllipticalEccentricAnomalyToTrueAnomalyByCosine(ellipticEccentricAnomaly, e) ==
    LET denominator == Sub[SCALE, Mul[e, cos[ellipticEccentricAnomaly]]]
        cosineOfTrueAnomaly == Div[Sub[cos[ellipticEccentricAnomaly], e], denominator]
    IN  Returned(acos[cosineOfTrueAnomaly], "none")

\* No assert: every eccentricity is computed with.
convertEllipticalEccentricAnomalyToTrueAnomaly(ellipticEccentricAnomaly, e) ==
    LET denominator == Sub[SCALE, Mul[e, cos[ellipticEccentricAnomaly]]]
        sineOfTrueAnomaly ==
            Div[Mul[sqrt[Sub[SCALE, Mul[e, e]]], sin[ellipticEccentricAnomaly]], denominator]
        cosineOfTrueAnomaly == Div[Sub[cos[ellipticEccentricAnomaly], e], denominator]
    IN  Returned(atan2[sineOfTrueAnomaly, cosineOfTrueAnomaly], "none")

\* No assert: every eccentricity is computed with.
convertHyperbolicEccentricAnomalyToTrueAnomaly(hyperbolicEccentricAnomaly, e) ==
    LET denominator == Sub[Mul[e, cosh[hyperbolicEccentricAnomaly]], SCALE]
        sineOfTrueAnomaly ==
            Div[Mul[sqrt[Sub[Mul[e, e], SCALE]], sinh[hyperbolicEccentricAnomaly]],
                denominator]
        cosineOfTrueAnomaly == Div[Sub[e, cosh[hyperbolicEccentricAnomaly]], denominator]
    IN  Returned(atan2[sineOfTrueAnomaly, cosineOfTrueAnomaly], "none")

convertEccentricAnomalyToTrueAnomaly(eccentricAnomalyArgument, e) ==
    IF ~DispatchEccentricityAccepted(e) THEN Failed("AssertionFailed")
    ELSE IF Less(e, SCALE)
         THEN [convertEllipticalEccentricAnomalyToTrueAnomaly(eccentricAnomalyArgument, e)
                   EXCEPT !.branch = "elliptical"]
    ELSE IF Greater(e, SCALE)
         THEN [convertHyperbolicEccentricAnomalyToTrueAnomaly(eccentricAnomalyArgument, e)
                   EXCEPT !.branch = "hyperbolic"]
    ELSE Returned(0, "none")

DispatchWrappers ==
    { "convertTrueAnomalyToEccentricAnomaly", "convertEccentricAnomalyToMeanAnomaly",
      "convertEccentricAnomalyToTrueAnomaly" }

EllipticalConversions ==
    { "convertTrueAnomalyToEllipticalEccentricAnomaly",
      "convertEllipticalEccentricAnomalyToMeanAnomaly",
      "convertEllipticalEccentricAnomalyToTrueAnomaly" }

HyperbolicConversions ==
    { "convertTrueAnomalyToHyperbolicEccentricAnomaly",
      "convertHyperbolicEccentricAnomalyToMeanAnomaly",
      "convertHyperbolicEccentricAnomalyToTrueAnomaly" }

AnomalyConversions == DispatchWrappers \cup EllipticalConversions \cup HyperbolicConversions

InitAnomalyConversion ==
    /\ function \in AnomalyConversions
    /\ pc = "call"
    /\ outcome = "running"
    /\ result = NaN
    /\ eccentricity \in Eccentricities
    /\ anomaly \in Anomalies
    /\ branch = "none"
    /\ rootFindingTolerance = 0
    /\ maximumIterations = 0
    /\ meanAnomalyShifted = NaN
    /\ initialGuess = NaN
    /\ eccentricAnomaly = NaN
    /\ eccentricAnomalyDifference = NaN
    /\ i = 0
    /\ updates = 0
    /\ NoSolverCall
    /\ NoCartesianCall

\* The call of a closed-form conversion ends as the conversion does.
Finish(name, ended) ==
    /\ function = name /\ pc = "call"
    /\ outcome' = ended.outcome
    /\ result' = ended.value
    /\ branch' = ended.branch
    /\ pc' = "done"
    /\ UNCHANGED <<solverVars, cartesianVars, function, eccentricity, anomaly, newtonVars>>

CallTrueAnomalyToEllipticalEccentricAnomaly ==
    Finish("convertTrueAnomalyToEllipticalEccentricAnomaly",
           convertTrueAnomalyToEllipticalEccentricAnomaly(anomaly, eccentricity))

CallTrueAnomalyToHyperbolicEccentricAnomaly ==
    Finish("convertTrueAnomalyToHyperbolicEccentricAnomaly",
           convertTrueAnomalyToHyperbolicEccentricAnomaly(anomaly, eccentricity))

CallTrueAnomalyToEccentricAnomaly ==
    Finish("convertTrueAnomalyToEccentricAnomaly",
           convertTrueAnomalyToEccentricAnomaly(anomaly, eccentricity))

CallEllipticalEccentricAnomalyToMeanAnomaly ==
    Finish("convertEllipticalEccentricAnomalyToMeanAnomaly",
           convertEllipticalEccentricAnomalyToMeanAnomaly(anomaly, eccentricity))

CallHyperbolicEccentricAnomalyToMeanAnomaly ==
    Finish("convertHyperbolicEccentricAnomalyToMeanAnomaly",
           convertHyperbolicEccentricAnomalyToMeanAnomaly(anomaly, eccentricity))

CallEccentricAnomalyToMeanAnomaly ==
    Finish("convertEccentricAnomalyToMeanAnomaly",
           convertEccentricAnomalyToMeanAnomaly(anomaly, eccentricity))

CallEllipticalEccentricAnomalyToTrueAnomaly ==
    Finish("convertEllipticalEccentricAnomalyToTrueAnomaly",
           convertEllipticalEccentricAnomalyToTrueAnomaly(anomaly, eccentricity))

CallHyperbolicEccentricAnomalyToTrueAnomaly ==
    Finish("convertHyperbolicEccentricAnomalyToTrueAnomaly",
           convertHyperbolicEccentricAnomalyToTrueAnomaly(anomaly, eccentricity))

CallEccentricAnomalyToTrueAnomaly ==
    Finish("convertEccentricAnomalyToTrueAnomaly",
           convertEccentricAnomalyToTrueAnomaly(anomaly, eccentricity))

(***************************************************************************)
(* The round trip of the elliptical anomalies: a true anomaly is converted *)
(* to the eccentric anomaly, that to the mean anomaly, and the             *)
(* Newton-Raphson solver is called on the mean anomaly with its default    *)
(* tolerance.                                                              *)
(***************************************************************************)
RoundTrip == "meanToEccentric(eccentricToMean(trueToEccentric))"

\* True anomalies drawn: in [0, pi] and in (pi, 2 pi).
RoundTripTrueAnomalies ==
    { 0, Real(5, 10), Real(1, 1), Real(25, 10), Real(3125, 1000), pi, Real(4, 1),
      Real(5, 1), Real(6, 1) }

\* The default cap of 100 updates stands here as every cap from 1 up that the
\* increment of line 821 does not overflow.
RoundTripIterationCaps == 1 .. (IntMax - 1)

InitRoundTrip ==
    /\ function = RoundTrip
    /\ pc = "trueToEccentric"
    /\ outcome = "running"
    /\ result = NaN
    /\ eccentricity \in Eccentricities
    /\ anomaly = NaN
    /\ branch = "none"
    /\ rootFindingTolerance = Epsilon
    /\ maximumIterations \in RoundTripIterationCaps
    /\ meanAnomalyShifted = NaN
    /\ initialGuess = NaN
    /\ eccentricAnomaly = NaN
    /\ eccentricAnomalyDifference = NaN
    /\ i = 0
    /\ updates = 0
    /\ iterations = 0
    /\ bisection = NoBisection
    /\ peer = NoPeer
    /\ roundTrip \in [trueAnomaly : RoundTripTrueAnomalies, eccentricAnomaly : {NaN},
                       state : {<<>>}]
    /\ NoCartesianCall

\* E = convertTrueAnomalyToEllipticalEccentricAnomaly(nu, e); its assert on
\* the eccentricity ends the round trip.
RTTrueToEccentric ==
    /\ function = RoundTrip /\ pc = "trueToEccentric"
    /\ LET ended == convertTrueAnomalyToEllipticalEccentricAnomaly(
                        roundTrip.trueAnomaly, eccentricity)
       IN  IF ended.outcome = "returned"
           THEN /\ roundTrip' = [roundTrip EXCEPT !.eccentricAnomaly = ended.value]
                /\ pc' = "eccentricToMean"
                /\ outcome' = outcome
           ELSE /\ roundTrip' = roundTrip
                /\ pc' = "done"
                /\ outcome' = ended.outcome
    /\ UNCHANGED <<function, result, anomalyVars, newtonVars, cartesianVars,
                   iterations, bisection, peer>>

\* M = convertEllipticalEccentricAnomalyToMeanAnomaly(E, e); the solver is
\* called on M.
RTEccentricToMean ==
    /\ function = RoundTrip /\ pc = "eccentricToMean"
    /\ anomaly' =
         convertEllipticalEccentricAnomalyToMeanAnomaly(
             roundTrip.eccentricAnomaly, eccentricity).value
    /\ function' = NR
    /\ pc' = "assert"
    /\ UNCHANGED <<outcome, result, eccentricity, branch, newtonVars, cartesianVars,
                   solverVars>>

(***************************************************************************)
(* The true anomaly converted to the eccentric anomaly and back, through   *)
(* the two wrappers that choose the conic by the eccentricity.             *)
(***************************************************************************)
TrueAnomalyAndBack == "eccentricToTrue(trueToEccentric)"

\* True anomalies drawn: negative ones, ones above pi and above 2 pi, and
\* ones inside and outside the asymptotes of the hyperbolas drawn.
AndBackTrueAnomalies ==
    { Real(-4, 1), Neg[pi], Real(-25, 10), Real(-1, 1), Real(-1, 10), 0, Real(5, 10),
      Real(1, 1), Real(18, 10), Real(25, 10), pi, Real(4, 1), Real(6, 1), Real(7, 1) }

InitTrueAnomalyAndBack ==
    /\ function = TrueAnomalyAndBack
    /\ pc = "trueToEccentric"
    /\ outcome = "running"
    /\ result = NaN
    /\ eccentricity \in Eccentricities
    /\ anomaly = NaN
    /\ branch = "none"
    /\ rootFindingTolerance = 0
    /\ maximumIterations = 0
    /\ meanAnomalyShifted = NaN
    /\ initialGuess = NaN
    /\ eccentricAnomaly = NaN
    /\ eccentricAnomalyDifference = NaN
    /\ i = 0
    /\ updates = 0
    /\ iterations = 0
    /\ bisection = NoBisection
    /\ peer = NoPeer
    /\ roundTrip \in [trueAnomaly : AndBackTrueAnomalies, eccentricAnomaly : {NaN},
                       state : {<<>>}]
    /\ NoCartesianCall

\* E = convertTrueAnomalyToEccentricAnomaly(nu, e); its assert on the
\* eccentricity ends the round trip.
BackTrueToEccentric ==
    /\ function = TrueAnomalyAndBack /\ pc = "trueToEccentric"
    /\ LET ended == convertTrueAnomalyToEccentricAnomaly(roundTrip.trueAnomaly, eccentricity)
       IN  /\ branch' = ended.branch
           /\ IF ended.outcome = "returned"
              THEN /\ roundTrip' = [roundTrip EXCEPT !.eccentricAnomaly = ended.value]
                   /\ pc' = "eccentricToTrue"
                   /\ outcome' = outcome
              ELSE /\ roundTrip' = roundTrip
                   /\ pc' = "done"
                   /\ outcome' = ended.outcome
    /\ UNCHANGED <<function, result, eccentricity, anomaly, newtonVars, cartesianVars,
                   iterations, bisection, peer>>

\* convertEccentricAnomalyToTrueAnomaly(E, e) is what the round trip returns.
BackEccentricToTrue ==
    /\ function = TrueAnomalyAndBack /\ pc = "eccentricToTrue"
    /\ LET ended == convertEccentricAnomalyToTrueAnomaly(roundTrip.eccentricAnomaly,
                                                         eccentricity)
       IN  /\ outcome' = ended.outcome
           /\ result' = ended.value
    /\ pc' = "done"
    /\ UNCHANGED <<function, anomalyVars, newtonVars, cartesianVars, solverVars>>

(***************************************************************************)
(* Cartesian elements -> Keplerian elements.  Element k of a C++ vector is *)
(* element k + 1 of the sequence that models it.                           *)
(***************************************************************************)
Vector3 == Int \X Int \X Int

\* a[0] * b[0] + a[1] * b[1] + a[2] * b[2]
Dot[a \in Vector3, b \in Vector3] ==
    Add[Add[Mul[a[1], b[1]], Mul[a[2], b[2]]], Mul[a[3], b[3]]]

\* The vector product, as lines 112-115 write it out.
Cross[a \in Vector3, b \in Vector3] ==
    << Sub[Mul[a[2], b[3]], Mul[a[3], b[2]]],
       Sub[Mul[a[3], b[1]], Mul[a[1], b[3]]],
       Sub[Mul[a[1], b[2]], Mul[a[2], b[1]]] >>

\* m * position[k] - d * velocity[k], with m the multiplier of the first term
\* and d = positionDotVelocity * gravitationalParameterInverse.
EccentricityVector[m \in Int, d \in Int, r \in Vector3, v \in Vector3] ==
    << Sub[Mul[m, r[1]], Mul[d, v[1]]],
       Sub[Mul[m, r[2]], Mul[d, v[2]]],
       Sub[Mul[m, r[3]], Mul[d, v[3]]] >>

\* std::acos(cosine), replaced by 2.0 * pi - std::acos(cosine) when flipped.
Angle[cosine \in Int, flipped \in BOOLEAN] ==
    IF flipped THEN Sub[Mul[2 * SCALE, pi], acos[cosine]] ELSE acos[cosine]

\* Positions drawn: on the x-axis, in the xy-plane, out of it, the origin.
Positions ==
    { <<SCALE, 0, 0>>,
      <<Real(6, 10), Real(8, 10), 0>>,
      <<SCALE, 0, Real(5, 10)>>,
      <<Real(-8, 10), Real(3, 10), Real(-5, 10)>>,
      <<0, 0, 0>> }

\* Velocities drawn: circular, elliptical, hyperbolic and parabolic speed at
\* unit distance, inclined, barely inclined, retrograde, radial, inward, at
\* rest; and two speeds, in the xy-plane and out of it, that with a
\* gravitational parameter of 2 give an eccentricity of 0.055.
Velocities ==
    { <<0, SCALE, 0>>,
      <<0, SCALE, Real(4, 100)>>,
      <<0, Real(8, 10), 0>>,
      <<0, 2 * SCALE, 0>>,
      <<0, Real(1414, 1000), 0>>,
      <<0, Real(6, 10), Real(8, 10)>>,
      <<Real(2, 10), Real(5, 10), Real(7, 10)>>,
      <<0, -SCALE, 0>>,
      <<SCALE, 0, 0>>,
      <<Real(-3, 10), Real(9, 10), Real(2, 10)>>,
      <<0, Real(1449, 1000), 0>>,
      <<0, Real(13, 10), Real(64, 100)>>,
      <<0, 0, 0>> }

\* Cartesian state vectors of 6 components, and of 5 and of 7.
StateVectors == { p \o v : p \in Positions, v \in Velocities }

WrongSizeVectors == { <<SCALE, 0, 0, 0, SCALE>>, <<SCALE, 0, 0, 0, SCALE, 0, 0>> }

GravitationalParameters == { -SCALE, 0, SCALE, 2 * SCALE }

\* Tolerances: the default, 10.0 * epsilon, a wide one, and one that an
\* eccentricity drawn meets exactly.
Tolerances == { 10 * Epsilon, Real(5, 100), Real(55, 1000) }

C2K == "convertCartesianToKeplerianElements"

InitCartesianToKeplerian ==
    /\ function = C2K
    /\ pc = "assert"
    /\ outcome = "running"
    /\ result = NaN
    /\ eccentricity = NaN
    /\ anomaly = NaN
    /\ branch = "none"
    /\ rootFindingTolerance = 0
    /\ maximumIterations = 0
    /\ meanAnomalyShifted = NaN
    /\ initialGuess = NaN
    /\ eccentricAnomaly = NaN
    /\ eccentricAnomalyDifference = NaN
    /\ i = 0
    /\ updates = 0
    /\ NoSolverCall
    /\ cartesianElements \in StateVectors \cup WrongSizeVectors
    /\ gravitationalParameter \in GravitationalParameters
    /\ tolerance \in Tolerances
    /\ keplerianElements = <<>>
    /\ locals = NoLocals

\* The size test that lets a vector with more than 6 components through.
CartesianArgumentsAcceptedAtLeastSix(elements, mu) ==
    Len(elements) >= 6 /\ Greater(mu, 0)

\* assert(cartesianElements.size() == 6); assert(gravitationalParameter > 0.0);
CartesianArgumentsAccepted(elements, mu) ==
    Len(elements) = 6 /\ Greater(mu, 0)

\* Lines 84-85: the two asserts on the arguments.
C2KAssert ==
    /\ function = C2K /\ pc = "assert"
    /\ IF CartesianArgumentsAccepted(cartesianElements, gravitationalParameter)
       THEN pc' = "vectors" /\ outcome' = outcome
       ELSE pc' = "done" /\ outcome' = "AssertionFailed"
    /\ UNCHANGED <<solverVars, function, result, anomalyVars, newtonVars, cartesianVars>>

\* Lines 87-117 and 130-132: the result starts as a copy of the argument;
\* position, velocity and angular momentum with their norms.
C2KVectors ==
    /\ function = C2K /\ pc = "vectors"
    /\ keplerianElements' = cartesianElements
    /\ locals' =
         [locals EXCEPT
            !.position = SubSeq(cartesianElements, 1, 3),
            !.velocity = SubSeq(cartesianElements, 4, 6),
            !.positionNorm =
                sqrt[Dot[SubSeq(cartesianElements, 1, 3), SubSeq(cartesianElements, 1, 3)]],
            !.velocityNormSquared =
                Dot[SubSeq(cartesianElements, 4, 6), SubSeq(cartesianElements, 4, 6)],
            !.positionDotVelocity =
                Dot[SubSeq(cartesianElements, 1, 3), SubSeq(cartesianElements, 4, 6)],
            !.angularMomentum =
                Cross[SubSeq(cartesianElements, 1, 3), SubSeq(cartesianElements, 4, 6)]]
    /\ pc' = "momentum"
    /\ UNCHANGED <<solverVars, function, outcome, result, anomalyVars, newtonVars,
                   cartesianElements, gravitationalParameter, tolerance>>

\* Lines 116-122 and 125-141: the norm of the angular momentum, the
\* eccentricity vector.
C2KEccentricityVector ==
    /\ function = C2K /\ pc = "momentum"
    /\ locals' =
         [locals EXCEPT
            !.angularMomentumNormSquared = Dot[locals.angularMomentum, locals.angularMomentum],
            !.angularMomentumNorm =
                sqrt[Dot[locals.angularMomentum, locals.angularMomentum]],
            !.eccentricityVector =
                EccentricityVector[
                    Sub[Mul[locals.velocityNormSquared, Div[SCALE, gravitationalParameter]],
                        Div[SCALE, locals.positionNorm]],
                    Mul[locals.positionDotVelocity, Div[SCALE, gravitationalParameter]],
                    locals.position, locals.velocity]]
    /\ pc' = "eccentricity"
    /\ UNCHANGED <<solverVars, function, outcome, result, anomalyVars, newtonVars,
                   cartesianElements, gravitationalParameter, tolerance,
                   keplerianElements>>

\* Lines 143-153: the eccentricity, stored in slot 1, and the specific total
\* energy of the vis-viva equation.
C2KEccentricity ==
    /\ function = C2K /\ pc = "eccentricity"
    /\ locals' =
         [locals EXCEPT
            !.eccentricityNormSquared =
                Dot[locals.eccentricityVector, locals.eccentricityVector],
            !.eccentricity =
                sqrt[Dot[locals.eccentricityVector, locals.eccentricityVector]],
            !.specificTotalEnergy =
                Sub[Mul[Real(5, 10), locals.velocityNormSquared],
                    Div[gravitationalParameter, locals.positionNorm]]]
    /\ keplerianElements' = [keplerianElements EXCEPT ![2] = locals'.eccentricity]
    /\ pc' = "semiMajorAxis"
    /\ UNCHANGED <<solverVars, function, outcome, result, anomalyVars, newtonVars,
                   cartesianElements, gravitationalParameter, tolerance>>

\* if (std::fabs(eccentricity - 1.0) > tolerance), line 157.
NotParabolic(e, limit) == Greater(fabs[Sub[e, SCALE]], limit)

\* Lines 159-161: semiMajorAxis = -0.5 * gravitationalParameter / energy.
SemiMajorAxis(mu, energy) == Div[Mul[Real(-5, 10), mu], energy]

\* assert(semiMajorAxis > 0.0), line 170.
SemiMajorAxisAccepted(a) == Greater(a, 0)

\* Lines 155-170: slot 0 is the semi-major axis, or for a parabola the
\* semi-latus rectum; then the assert on the semi-major axis.
C2KSemiMajorAxis ==
    /\ function = C2K /\ pc = "semiMajorAxis"
    /\ IF NotParabolic(locals.eccentricity, tolerance)
       THEN /\ locals' =
                 [locals EXCEPT
                    !.semiMajorAxis =
                        SemiMajorAxis(gravitationalParameter, locals.specificTotalEnergy),
                    !.semiLatusRectum =
                        Mul[SemiMajorAxis(gravitationalParameter, locals.specificTotalEnergy),
                            Sub[SCALE, locals.eccentricityNormSquared]]]
            /\ keplerianElements' =
                 [keplerianElements EXCEPT ![1] = locals'.semiMajorAxis]
       ELSE /\ locals' =
                 [locals EXCEPT
                    !.semiMajorAxis = Infinity,
                    !.semiLatusRectum =
                        Mul[locals.angularMomentumNormSquared,
                            Div[SCALE, gravitationalParameter]]]
            /\ keplerianElements' =
                 [keplerianElements EXCEPT ![1] = locals'.semiLatusRectum]
    /\ IF SemiMajorAxisAccepted(locals'.semiMajorAxis)
       THEN pc' = "node" /\ outcome' = outcome
       ELSE pc' = "done" /\ outcome' = "AssertionFailed"
    /\ UNCHANGED <<solverVars, function, result, anomalyVars, newtonVars,
                   cartesianElements, gravitationalParameter, tolerance>>

\* Lines 172-200: the inclination, slot 2; the ascending node vector and the
\* longitude of the ascending node, slot 4.
C2KInclinationAndNode ==
    /\ function = C2K /\ pc = "node"
    /\ locals' =
         [locals EXCEPT
            !.inclination =
                acos[Div[locals.angularMomentum[3], locals.angularMomentumNorm]],
            !.ascendingNodeVector =
                <<Neg[locals.angularMomentum[2]], locals.angularMomentum[1], 0>>,
            !.ascendingNodeVectorNorm =
                sqrt[Dot[<<Neg[locals.angularMomentum[2]], locals.angularMomentum[1], 0>>,
                         <<Neg[locals.angularMomentum[2]], locals.angularMomentum[1], 0>>]],
            !.longitudeOfAscendingNode =
                Angle[Div[Neg[locals.angularMomentum[2]],
                          sqrt[Dot[<<Neg[locals.angularMomentum[2]],
                                     locals.angularMomentum[1], 0>>,
                                   <<Neg[locals.angularMomentum[2]],
                                     locals.angularMomentum[1], 0>>]]],
                      Less(locals.angularMomentum[1], 0)]]
    /\ keplerianElements' =
         [keplerianElements EXCEPT ![3] = locals'.inclination,
                                   ![5] = locals'.longitudeOfAscendingNode]
    /\ pc' = "periapsis"
    /\ UNCHANGED <<solverVars, function, outcome, result, anomalyVars, newtonVars,
                   cartesianElements, gravitationalParameter, tolerance>>

\* The step with the argument of periapsis flipped by the sign of the
\* y-component of the eccentricity vector.
C2KPeriapsisAndAnomalyFlipOnY ==
    /\ function = C2K /\ pc = "periapsis"
    /\ locals' =
         [locals EXCEPT
            !.argumentOfPeriapsis =
                Angle[Div[Dot[locals.ascendingNodeVector, locals.eccentricityVector],
                          Mul[locals.ascendingNodeVectorNorm, locals.eccentricity]],
                      Less(locals.eccentricityVector[2], 0)],
            !.trueAnomaly =
                Angle[Div[Dot[locals.eccentricityVector, locals.position],
                          Mul[locals.eccentricity, locals.positionNorm]],
                      Less(locals.positionDotVelocity, 0)]]
    /\ keplerianElements' =
         [keplerianElements EXCEPT ![4] = locals'.argumentOfPeriapsis,
                                   ![6] = locals'.trueAnomaly]
    /\ pc' = "equatorial"
    /\ UNCHANGED <<solverVars, function, outcome, result, anomalyVars, newtonVars,
                   cartesianElements, gravitationalParameter, tolerance>>

\* Lines 202-230: the argument of periapsis, slot 3, and the true anomaly,
\* slot 5.
C2KPeriapsisAndAnomaly ==
    /\ function = C2K /\ pc = "periapsis"
    /\ locals' =
         [locals EXCEPT
            !.argumentOfPeriapsis =
                Angle[Div[Dot[locals.ascendingNodeVector, locals.eccentricityVector],
                          Mul[locals.ascendingNodeVectorNorm, locals.eccentricity]],
                      Less(locals.eccentricityVector[3], 0)],
            !.trueAnomaly =
                Angle[Div[Dot[locals.eccentricityVector, locals.position],
                          Mul[locals.eccentricity, locals.positionNorm]],
                      Less(locals.positionDotVelocity, 0)]]
    /\ keplerianElements' =
         [keplerianElements EXCEPT ![4] = locals'.argumentOfPeriapsis,
                                   ![6] = locals'.trueAnomaly]
    /\ pc' = "equatorial"
    /\ UNCHANGED <<solverVars, function, outcome, result, anomalyVars, newtonVars,
                   cartesianElements, gravitationalParameter, tolerance>>

\* The elliptical, equatorial test with the sign of the tolerance slipped: it
\* holds of no state.
EllipticalEquatorialNegatedTolerance(e, inclination, limit) ==
    Greater(fabs[e], limit) /\ Less(fabs[inclination], Neg[limit])

\* if (std::fabs(eccentricity) > tolerance && std::fabs(inclination) < tolerance)
EllipticalEquatorial(e, inclination, limit) ==
    Greater(fabs[e], limit) /\ Less(fabs[inclination], limit)

\* The circular, inclined test with its second comparison turned round: the
\* test of the circular, equatorial case.
CircularInclinedComparisonTurned(e, inclination, limit) ==
    Less(fabs[e], limit) /\ Less(fabs[inclination], limit)

\* if (std::fabs(eccentricity) < tolerance && std::fabs(inclination) > tolerance)
CircularInclined(e, inclination, limit) ==
    Less(fabs[e], limit) /\ Greater(fabs[inclination], limit)

\* The circular, equatorial test with the tolerance itself counted in.
CircularEquatorialClosed(e, inclination, limit) ==
    LessEq(fabs[e], limit) /\ LessEq(fabs[inclination], limit)

\* if (std::fabs(eccentricity) < tolerance && std::fabs(inclination) < tolerance)
CircularEquatorial(e, inclination, limit) ==
    Less(fabs[e], limit) /\ Less(fabs[inclination], limit)

\* Lines 232-245: the true longitude of periapsis; for an elliptical,
\* equatorial orbit it goes to slot 4.
C2KEllipticalEquatorial ==
    /\ function = C2K /\ pc = "equatorial"
    /\ IF EllipticalEquatorial(locals.eccentricity, locals.inclination, tolerance)
       THEN /\ locals' =
                 [locals EXCEPT
                    !.trueLongitudeOfPeriapsis =
                        Angle[Div[locals.eccentricityVector[1], locals.eccentricity],
                              Less(locals.eccentricityVector[2], tolerance)],
                    !.longitudeOfAscendingNode = NaN]
            /\ keplerianElements' =
                 [keplerianElements EXCEPT ![5] = locals'.trueLongitudeOfPeriapsis]
       ELSE /\ locals' =
                 [locals EXCEPT
                    !.trueLongitudeOfPeriapsis =
                        Angle[Div[locals.eccentricityVector[1], locals.eccentricity],
                              Less(locals.eccentricityVector[2], tolerance)]]
            /\ keplerianElements' = keplerianElements
    /\ pc' = "latitude"
    /\ UNCHANGED <<solverVars, function, outcome, result, anomalyVars, newtonVars,
                   cartesianElements, gravitationalParameter, tolerance>>

\* Lines 247-265: the argument of latitude; for a circular, inclined orbit
\* it goes to slot 3.
C2KCircularInclined ==
    /\ function = C2K /\ pc = "latitude"
    /\ IF CircularInclined(locals.eccentricity, locals.inclination, tolerance)
       THEN /\ locals' =
                 [locals EXCEPT
                    !.argumentOfLatitude =
                        Angle[Div[Dot[locals.ascendingNodeVector, locals.position],
                                  Mul[locals.ascendingNodeVectorNorm, locals.positionNorm]],
                              Less(locals.position[3], 0)],
                    !.argumentOfPeriapsis = NaN]
            /\ keplerianElements' =
                 [keplerianElements EXCEPT ![4] = locals'.argumentOfLatitude]
       ELSE /\ locals' =
                 [locals EXCEPT
                    !.argumentOfLatitude =
                        Angle[Div[Dot[locals.ascendingNodeVector, locals.position],
                                  Mul[locals.ascendingNodeVectorNorm, locals.positionNorm]],
                              Less(locals.position[3], 0)]]
            /\ keplerianElements' = keplerianElements
    /\ pc' = "longitude"
    /\ UNCHANGED <<solverVars, function, outcome, result, anomalyVars, newtonVars,
                   cartesianElements, gravitationalParameter, tolerance>>

\* Lines 267-280: the true longitude; for a circular, equatorial orbit it
\* goes to slot 5.
C2KCircularEquatorial ==
    /\ function = C2K /\ pc = "longitude"
    /\ IF CircularEquatorial(locals.eccentricity, locals.inclination, tolerance)
       THEN /\ locals' =
                 [locals EXCEPT
                    !.trueLongitude =
                        Angle[Div[locals.position[1], locals.positionNorm],
                              Less(locals.position[2], 0)],
                    !.argumentOfPeriapsis = NaN,
                    !.longitudeOfAscendingNode = NaN]
            /\ keplerianElements' =
                 [keplerianElements EXCEPT ![6] = locals'.trueLongitude]
       ELSE /\ locals' =
                 [locals EXCEPT
                    !.trueLongitude =
                        Angle[Div[locals.position[1], locals.positionNorm],
                              Less(locals.position[2], 0)]]
            /\ keplerianElements' = keplerianElements
    /\ pc' = "return"
    /\ UNCHANGED <<solverVars, function, outcome, result, anomalyVars, newtonVars,
                   cartesianElements, gravitationalParameter, tolerance>>

\* Line 282: return keplerianElements.
C2KReturn ==
    /\ function = C2K /\ pc = "return"
    /\ outcome' = "returned"
    /\ pc' = "done"
    /\ UNCHANGED <<solverVars, function, result, anomalyVars, newtonVars, cartesianVars>>

(***************************************************************************)
(* Keplerian elements -> Cartesian elements.  The argument is              *)
(* keplerianElements, the result is built in cartesianElements.            *)
(***************************************************************************)
K2C == "convertKeplerianToCartesianElements"

\* Slot 0 drawn: a semi-major axis or a semi-latus rectum.
SemiMajorAxes == { SCALE, Real(25, 10) }

\* Eccentricities drawn: circular, elliptical, at and next to both ends of
\* the parabolic band of each tolerance, hyperbolic, not a number.
KeplerianEccentricities ==
    { 0, Real(5, 10),
      Real(949, 1000), Real(95, 100), Real(989, 1000), Real(99, 100), SCALE,
      Real(101, 100), Real(1011, 1000), Real(105, 100), Real(1051, 1000),
      2 * SCALE, NaN }

Inclinations == { 0, Real(5, 10) }

ArgumentsOfPeriapsis == { 0, Real(1, 1) }

LongitudesOfAscendingNode == { 0, Real(2, 1) }

TrueAnomalies == { 0, Real(1, 1), Real(4, 1) }

KeplerianStates ==
    { <<a, e, inc, w, node, nu>> :
        a \in SemiMajorAxes, e \in KeplerianEccentricities, inc \in Inclinations,
        w \in ArgumentsOfPeriapsis, node \in LongitudesOfAscendingNode,
        nu \in TrueAnomalies }

\* The locals of convertKeplerianToCartesianElements before they are set.
NoPerifocalLocals ==
    [ semiLatusRectum |-> NaN, radiusMagnitude |-> NaN,
      xPositionPerifocal |-> NaN, yPositionPerifocal |-> NaN,
      xVelocityPerifocal |-> NaN, yVelocityPerifocal |-> NaN ]

InitKeplerianToCartesian ==
    /\ function = K2C
    /\ pc = "semiLatusRectum"
    /\ outcome = "running"
    /\ result = NaN
    /\ eccentricity = NaN
    /\ anomaly = NaN
    /\ branch = "none"
    /\ rootFindingTolerance = 0
    /\ maximumIterations = 0
    /\ meanAnomalyShifted = NaN
    /\ initialGuess = NaN
    /\ eccentricAnomaly = NaN
    /\ eccentricAnomalyDifference = NaN
    /\ i = 0
    /\ updates = 0
    /\ NoSolverCall
    /\ cartesianElements = <<>>
    /\ gravitationalParameter \in { SCALE, 2 * SCALE }
    /\ tolerance \in Tolerances
    /\ keplerianElements \in KeplerianStates
    /\ locals = NoPerifocalLocals

\* The parabola test with the boundary counted as not parabolic.
KeplerianNotParabolicClosed(e, limit) == GreaterEq(fabs[Sub[e, SCALE]], limit)

\* if (std::fabs(eccentricity - 1.0) > tolerance), line 341.
KeplerianNotParabolic(e, limit) == Greater(fabs[Sub[e, SCALE]], limit)

\* Lines 320 and 339-350: the result starts as a copy of the argument; the
\* semi-latus rectum is computed from the semi-major axis in slot 0, or for a
\* parabola read from slot 0.
K2CSemiLatusRectum ==
    /\ function = K2C /\ pc = "semiLatusRectum"
    /\ cartesianElements' = keplerianElements
    /\ IF KeplerianNotParabolic(keplerianElements[2], tolerance)
       THEN /\ locals' =
                 [locals EXCEPT
                    !.semiLatusRectum =
                        Mul[keplerianElements[1],
                            Sub[SCALE, Mul[keplerianElements[2], keplerianElements[2]]]]]
            /\ branch' = "semiMajorAxis"
       ELSE /\ locals' = [locals EXCEPT !.semiLatusRectum = keplerianElements[1]]
            /\ branch' = "semiLatusRectum"
    /\ pc' = "perifocal"
    /\ UNCHANGED <<solverVars, function, outcome, result, eccentricity, anomaly, newtonVars,
                   gravitationalParameter, tolerance, keplerianElements>>

\* Lines 352-362: the radius, and position and velocity in the perifocal
\* frame.
K2CPerifocal ==
    /\ function = K2C /\ pc = "perifocal"
    /\ locals' =
         [locals EXCEPT
            !.radiusMagnitude =
                Div[locals.semiLatusRectum,
                    Add[SCALE, Mul[keplerianElements[2], cos[keplerianElements[6]]]]],
            !.xPositionPerifocal =
                Mul[Div[locals.semiLatusRectum,
                        Add[SCALE, Mul[keplerianElements[2], cos[keplerianElements[6]]]]],
                    cos[keplerianElements[6]]],
            !.yPositionPerifocal =
                Mul[Div[locals.semiLatusRectum,
                        Add[SCALE, Mul[keplerianElements[2], cos[keplerianElements[6]]]]],
                    sin[keplerianElements[6]]],
            !.xVelocityPerifocal =
                Mul[Neg[sqrt[Div[gravitationalParameter, locals.semiLatusRectum]]],
                    sin[keplerianElements[6]]],
            !.yVelocityPerifocal =
                Mul[sqrt[Div[gravitationalParameter, locals.semiLatusRectum]],
                    Add[keplerianElements[2], cos[keplerianElements[6]]]]]
    /\ pc' = "rotate"
    /\ UNCHANGED <<solverVars, function, outcome, result, anomalyVars, newtonVars,
                   cartesianElements, gravitationalParameter, tolerance,
                   keplerianElements>>

\* Lines 329-337: <<cos(i), sin(i), cos(w), sin(w), cos(Node), sin(Node)>>.
SinesAndCosines[inc \in Int, w \in Int, node \in Int] ==
    <<cos[inc], sin[inc], cos[w], sin[w], cos[node], sin[node]>>

\* Lines 364-400: the rotation from the perifocal to the inertial frame,
\* applied to perifocal coordinates <<x, y>>; t is SinesAndCosines.
RotateToInertial[t \in Seq(Int), x \in Int, y \in Int] ==
    << Add[Mul[Sub[Mul[t[5], t[3]], Mul[Mul[t[6], t[4]], t[1]]], x],
           Mul[Sub[Mul[Neg[t[5]], t[4]], Mul[Mul[t[6], t[3]], t[1]]], y]],
       Add[Mul[Add[Mul[t[6], t[3]], Mul[Mul[t[5], t[4]], t[1]]], x],
           Mul[Add[Mul[Neg[t[6]], t[4]], Mul[Mul[t[5], t[3]], t[1]]], y]],
       Add[Mul[Mul[t[4], t[2]], x], Mul[Mul[t[3], t[2]], y]] >>

\* Lines 364-402: the Cartesian position and velocity; the vector is returned.
K2CRotate ==
    /\ function = K2C /\ pc = "rotate"
    /\ cartesianElements' =
         RotateToInertial[
             SinesAndCosines[keplerianElements[3], keplerianElements[4], keplerianElements[5]],
             locals.xPositionPerifocal, locals.yPositionPerifocal]
         \o RotateToInertial[
             SinesAndCosines[keplerianElements[3], keplerianElements[4], keplerianElements[5]],
             locals.xVelocityPerifocal, locals.yVelocityPerifocal]
    /\ outcome' = "returned"
    /\ pc' = "done"
    /\ UNCHANGED <<solverVars, function, result, anomalyVars, newtonVars,
                   gravitationalParameter, tolerance, keplerianElements, locals>>

(***************************************************************************)
(* The round trip of the elements: a Cartesian state is converted to       *)
(* Keplerian elements and these back to a Cartesian state, with the same   *)
(* gravitational parameter and tolerance.                                  *)
(***************************************************************************)
InitCartesianAndBack ==
    /\ function = C2K
    /\ pc = "assert"
    /\ outcome = "running"
    /\ result = NaN
    /\ eccentricity = NaN
    /\ anomaly = NaN
    /\ branch = "none"
    /\ rootFindingTolerance = 0
    /\ maximumIterations = 0
    /\ meanAnomalyShifted = NaN
    /\ initialGuess = NaN
    /\ eccentricAnomaly = NaN
    /\ eccentricAnomalyDifference = NaN
    /\ i = 0
    /\ updates = 0
    /\ iterations = 0
    /\ bisection = NoBisection
    /\ peer = NoPeer
    /\ cartesianElements \in StateVectors
    /\ roundTrip = [NoRoundTrip EXCEPT !.state = cartesianElements]
    /\ gravitationalParameter \in { SCALE, 2 * SCALE }
    /\ tolerance \in Tolerances
    /\ keplerianElements = <<>>
    /\ locals = NoLocals

\* The vector convertCartesianToKeplerianElements returned is the argument
\* of convertKeplerianToCartesianElements.
CartesianAndBack ==
    /\ function = C2K /\ pc = "done" /\ outcome = "returned"
    /\ roundTrip.state # <<>>
    /\ function' = K2C
    /\ pc' = "semiLatusRectum"
    /\ outcome' = "running"
    /\ branch' = "none"
    /\ cartesianElements' = <<>>
    /\ locals' = NoPerifocalLocals
    /\ UNCHANGED <<result, eccentricity, anomaly, newtonVars, gravitationalParameter,
                   tolerance, keplerianElements, solverVars>>

(***************************************************************************)
(* The specification: one call of one conversion.                          *)
(***************************************************************************)
Init ==
    \/ InitNewtonRaphson
    \/ InitAnomalyConversion
    \/ InitCartesianToKeplerian
    \/ InitKeplerianToCartesian
    \/ InitBisection
    \/ InitRoundTrip
    \/ InitTrueAnomalyAndBack
    \/ InitCartesianAndBack
    \/ InitInterleaved

Next ==
    \/ NRAssert
    \/ NRShift
    \/ NRGuess
    \/ NRLoopExit
    \/ NRThrow
    \/ NRUpdate
    \/ NRReturn
    \/ BSAssert
    \/ BSShift
    \/ BSFold
    \/ BSHalve
    \/ BSReturn
    \/ CallTrueAnomalyToEllipticalEccentricAnomaly
    \/ CallTrueAnomalyToHyperbolicEccentricAnomaly
    \/ CallTrueAnomalyToEccentricAnomaly
    \/ CallEllipticalEccentricAnomalyToMeanAnomaly
    \/ CallHyperbolicEccentricAnomalyToMeanAnomaly
    \/ CallEccentricAnomalyToMeanAnomaly
    \/ CallEllipticalEccentricAnomalyToTrueAnomaly
    \/ CallHyperbolicEccentricAnomalyToTrueAnomaly
    \/ CallEccentricAnomalyToTrueAnomaly
    \/ C2KAssert
    \/ C2KVectors
    \/ C2KEccentricityVector
    \/ C2KEccentricity
    \/ C2KSemiMajorAxis
    \/ C2KInclinationAndNode
    \/ C2KPeriapsisAndAnomaly
    \/ C2KEllipticalEquatorial
    \/ C2KCircularInclined
    \/ C2KCircularEquatorial
    \/ C2KReturn
    \/ K2CSemiLatusRectum
    \/ K2CPerifocal
    \/ K2CRotate
    \/ RTTrueToEccentric
    \/ RTEccentricToMean
    \/ BackTrueToEccentric
    \/ BackEccentricToTrue
    \/ CartesianAndBack
    \/ PeerStep

Spec == Init /\ [][Next]_vars

\* Every step of a call is taken: a call runs to its end.
FairSpec == Spec /\ WF_vars(Next)

(***************************************************************************)
(* Properties of the Newton-Raphson solver.                                *)
(***************************************************************************)
\* C1: the iteration ends with a value only after an update whose absolute
\* change is below the tolerance, |E_n - E_{n+1}| < rootFindingTolerance; an
\* update that raises the estimate by the tolerance or more never ends it.
C1_StopsOnlyOnSmallAbsoluteChange ==
    (function = NR /\ pc = "return" /\ updates > 0)
        => Less(fabs[eccentricAnomalyDifference], rootFindingTolerance)

\* C2: with a valid eccentricity the solver returns a value only if at least
\* one Newton update was performed and the stopping test held on the last
\* one; on every other path, for every iteration cap, it fails with
\* MaxIterationsExceeded.
C2_ValueOnlyAfterConvergedUpdate ==
    (function = NR /\ pc = "done" /\ eccentricity >= 0 /\ eccentricity < SCALE)
        => /\ outcome = "returned"
                => /\ updates >= 1
                   /\ StoppingTest(eccentricAnomalyDifference, rootFindingTolerance)
           /\ outcome # "returned" => outcome = "MaxIterationsExceeded"

\* C3: for every cap >= 0 the solver performs at most cap Newton updates;
\* it goes on only while the stopping test failed, fails with
\* MaxIterationsExceeded only after cap updates on none of which the test
\* held, and ends with a value only after an update on which the test held,
\* update number cap included: a call ends with a converged value or with
\* that failure.
C3_CapBoundsUpdates ==
    (function = NR /\ maximumIterations >= 0)
        => /\ updates <= maximumIterations
           /\ (pc = "loop" /\ updates > 0)
                => ~Less(eccentricAnomalyDifference, rootFindingTolerance)
           /\ (pc = "done" /\ outcome = "MaxIterationsExceeded")
                => /\ updates = maximumIterations
                   /\ updates > 0
                        => ~Less(eccentricAnomalyDifference, rootFindingTolerance)
           /\ (pc = "done" /\ outcome = "returned")
                => /\ updates >= 1
                   /\ Less(eccentricAnomalyDifference, rootFindingTolerance)

\* C4: with an eccentricity outside [0, 1 - 1e-11) the solver fails on its
\* assert before the mean anomaly is shifted and before any Newton update,
\* for every mean anomaly, tolerance and cap; no value is returned.
C4_InvalidEccentricityFailsFirst ==
    (function = NR /\ ~(eccentricity >= 0 /\ eccentricity < SCALE))
        => /\ pc \in {"assert", "done"}
           /\ updates = 0
           /\ isnan(meanAnomalyShifted)
           /\ isnan(eccentricAnomaly)
           /\ pc = "done" => (outcome = "AssertionFailed" /\ isnan(result))

\* A negative eccentricity has failed the assert.
C4_Witness ==
    /\ function = NR /\ pc = "done" /\ outcome = "AssertionFailed"
    /\ eccentricity < 0 /\ maximumIterations > 0

\* C23: for every eccentricity in [0, 1 - 1e-11) and every mean anomaly M in
\* [0, 2 pi), the value E that the Newton-Raphson solver returns with its
\* default tolerance and a cap that its loop can count to has a Kepler
\* residual |E - e sin(E) - M| below the bound (1e-9 in the source's doubles,
\* ten grid steps here).
C23_ReturnedValueSolvesKeplersEquation ==
    ( /\ function = NR /\ pc = "done" /\ outcome = "returned"
      /\ NewtonRaphsonEccentricityValid(eccentricity)
      /\ GreaterEq(anomaly, 0) /\ Less(anomaly, twoPi)
      /\ rootFindingTolerance = Epsilon
      /\ maximumIterations >= 1 /\ maximumIterations < IntMax )
        => Less(fabs[computeEllipticalKeplerFunction(result, eccentricity, anomaly)],
                10 * Epsilon)

\* The initial guess has been set.
NRSeeded ==
    /\ function = NR
    /\ pc \in {"loop", "return"} \/ (pc = "done" /\ outcome # "AssertionFailed")

\* C25: the Newton-Raphson solver seeds its iteration from the shifted mean
\* anomaly only: the initial guess is M_shifted + e when M_shifted <= pi, pi
\* itself included, and M_shifted - e when M_shifted > pi; the iteration
\* starts at that guess and the first Newton update is computed from it.
C25_SeededFromShiftedMeanAnomaly ==
    NRSeeded
        => /\ LessEq(meanAnomalyShifted, pi)
                => initialGuess = Add[meanAnomalyShifted, eccentricity]
           /\ Greater(meanAnomalyShifted, pi)
                => initialGuess = Sub[meanAnomalyShifted, eccentricity]
           /\ updates = 0 => eccentricAnomaly = initialGuess
           /\ updates = 1
                => /\ eccentricAnomaly =
                        NewtonStep(initialGuess, eccentricity, meanAnomalyShifted)
                   /\ eccentricAnomalyDifference = Sub[initialGuess, eccentricAnomaly]

\* A mean anomaly of pi itself and an eccentric orbit: the guess is pi + e,
\* and the first update has been made.
C25_Witness ==
    /\ NRSeeded
    /\ meanAnomalyShifted = pi
    /\ Greater(eccentricity, 0)
    /\ initialGuess = Add[pi, eccentricity]
    /\ updates = 1

(***************************************************************************)
(* Properties of the bisection solver and of the shift of the mean         *)
(* anomaly.                                                                *)
(***************************************************************************)
\* C17: the bisection solver has no failure path for a valid eccentricity:
\* for every e in [0, 1), every mean anomaly and every iterations >= 0 the
\* call performs exactly `iterations` halving steps and then returns a value.
C17_BisectionAlwaysReturns ==
    (function = BS /\ BisectionEccentricityValid(eccentricity) /\ iterations >= 0)
        ~> /\ function = BS /\ pc = "done" /\ outcome = "returned"
           /\ updates = iterations
           /\ bisection.J = iterations

\* The solver returned a value after the largest number of halving steps.
C17_Witness ==
    /\ function = BS /\ pc = "done" /\ outcome = "returned"
    /\ iterations = IntMax /\ updates = IntMax
    /\ isfinite(result)

\* C19: for eccentricity 0 and any mean anomaly M the Newton-Raphson solver,
\* called with maximumIterations >= 1, returns exactly M reduced to
\* [0, 2 pi), reaches it on its first Newton update, and does not fail.
C19_CircularOrbitInOneUpdate ==
    (function = NR /\ pc = "done" /\ eccentricity = 0 /\ maximumIterations >= 1)
        => /\ outcome = "returned"
           /\ result = ShiftMeanAnomaly(anomaly)
           /\ updates = 1

\* A solver has shifted the mean anomaly.
MeanAnomalyIsShifted ==
    /\ function \in {NR, BS}
    /\ pc \notin {"assert", "shift"}
    /\ outcome # "AssertionFailed"

EccentricityChecked ==
    { "convertTrueAnomalyToEllipticalEccentricAnomaly",
      "convertEllipticalEccentricAnomalyToMeanAnomaly",
      "convertTrueAnomalyToHyperbolicEccentricAnomaly",
      "convertHyperbolicEccentricAnomalyToMeanAnomaly" }

\* The Elliptical-qualified conversion a dispatch wrapper stands for.
EllipticalOf(name, a, e) ==
    CASE name = "convertTrueAnomalyToEccentricAnomaly"
            -> convertTrueAnomalyToEllipticalEccentricAnomaly(a, e)
      [] name = "convertEccentricAnomalyToMeanAnomaly"
            -> convertEllipticalEccentricAnomalyToMeanAnomaly(a, e)
      [] name = "convertEccentricAnomalyToTrueAnomaly"
            -> convertEllipticalEccentricAnomalyToTrueAnomaly(a, e)

\* The Hyperbolic-qualified conversion a dispatch wrapper stands for.
HyperbolicOf(name, a, e) ==
    CASE name = "convertTrueAnomalyToEccentricAnomaly"
            -> convertTrueAnomalyToHyperbolicEccentricAnomaly(a, e)
      [] name = "convertEccentricAnomalyToMeanAnomaly"
            -> convertHyperbolicEccentricAnomalyToMeanAnomaly(a, e)
      [] name = "convertEccentricAnomalyToTrueAnomaly"
            -> convertHyperbolicEccentricAnomalyToTrueAnomaly(a, e)

\* C5: each dispatch wrapper fails, returning no value, when the
\* eccentricity is negative and when |eccentricity - 1| < machine epsilon,
\* for every anomaly; e = 1.0 exactly fails.
C5_DispatchRejectsNegativeAndParabolic ==
    (function \in DispatchWrappers /\ pc = "done"
        /\ (eccentricity < 0 \/ Abs(eccentricity - SCALE) < Epsilon))
        => (outcome = "AssertionFailed" /\ isnan(result) /\ branch = "none")

\* A wrapper has failed for e = 1.0 exactly.
C5_Witness ==
    /\ function \in DispatchWrappers /\ pc = "done"
    /\ eccentricity = SCALE /\ outcome = "AssertionFailed"

\* C6: a dispatch wrapper does not fail for any eccentricity e >= 0 with
\* |e - 1| >= machine epsilon; e = 0 is handled as elliptical and an
\* eccentricity at distance machine epsilon from 1 is dispatched.
C6_DispatchAcceptsEveryOtherEccentricity ==
    (function \in DispatchWrappers /\ pc = "done"
        /\ eccentricity >= 0 /\ Abs(eccentricity - SCALE) >= Epsilon)
        => (outcome = "returned" /\ branch \in {"elliptical", "hyperbolic"})

\* C7: for every eccentricity a dispatch wrapper accepts it returns the
\* value of the Elliptical-qualified conversion when e < 1 and of the
\* Hyperbolic-qualified one when e > 1; exactly one branch runs, so the
\* placeholder 0.0 is never returned uncomputed.
C7_DispatchReturnsTheBranchValue ==
    (function \in DispatchWrappers /\ pc = "done" /\ outcome = "returned")
        => /\ branch \in {"elliptical", "hyperbolic"}
           /\ eccentricity < SCALE
                => /\ branch = "elliptical"
                   /\ result = EllipticalOf(function, anomaly, eccentricity).value
           /\ eccentricity > SCALE
                => /\ branch = "hyperbolic"
                   /\ result = HyperbolicOf(function, anomaly, eccentricity).value

\* A wrapper has returned the elliptical value for a circular orbit.
C7_Witness ==
    /\ function = "convertTrueAnomalyToEccentricAnomaly" /\ pc = "done"
    /\ outcome = "returned" /\ eccentricity = 0 /\ branch = "elliptical"
    /\ result # 0

\* C8: the Elliptical-qualified true->eccentric and eccentric->mean
\* conversions fail unless 0 <= e < 1 and the Hyperbolic-qualified ones fail
\* unless e > 1; e = 1 and negative e are rejected by both families, and no
\* value is returned on failure.
C8_QualifiedConversionsCheckEccentricity ==
    (function \in EccentricityChecked /\ pc = "done")
        => /\ (function \in EllipticalConversions
                  /\ ~(eccentricity >= 0 /\ eccentricity < SCALE))
                => (outcome = "AssertionFailed" /\ isnan(result))
           /\ (function \in HyperbolicConversions /\ ~(eccentricity > SCALE))
                => (outcome = "AssertionFailed" /\ isnan(result))
           /\ eccentricity = SCALE \/ eccentricity < 0 => outcome = "AssertionFailed"

\* An Elliptical-qualified conversion has failed for e = 1.
C8_Witness ==
    /\ function = "convertEllipticalEccentricAnomalyToMeanAnomaly" /\ pc = "done"
    /\ eccentricity = SCALE /\ outcome = "AssertionFailed"

\* C9: convertEllipticalEccentricAnomalyToTrueAnomaly fails whenever e is
\* outside [0, 1), and convertHyperbolicEccentricAnomalyToTrueAnomaly fails
\* whenever e <= 1.
C9_EccentricToTrueChecksEccentricity ==
    /\ (function = "convertEllipticalEccentricAnomalyToTrueAnomaly" /\ pc = "done"
            /\ ~(eccentricity >= 0 /\ eccentricity < SCALE))
        => outcome # "returned"
    /\ (function = "convertHyperbolicEccentricAnomalyToTrueAnomaly" /\ pc = "done"
            /\ eccentricity <= SCALE)
        => outcome # "returned"

(***************************************************************************)
(* Properties of convertCartesianToKeplerianElements.                      *)
(***************************************************************************)
\* C10: for every 6-component Cartesian state with gravitational parameter
\* > 0 whose eccentricity is not within tolerance of 1 the call does not
\* fail and slot 0 of the result is a = -mu / (2 * energy), hyperbolic
\* states (energy > 0, a < 0) included.
C10_SemiMajorAxisOfEveryConic ==
    (function = C2K /\ pc = "done"
        /\ Len(cartesianElements) = 6 /\ gravitationalParameter > 0
        /\ isfinite(locals.eccentricity)
        /\ Abs(locals.eccentricity - SCALE) > tolerance)
        => /\ outcome = "returned"
           /\ keplerianElements[1]
                = Div[Neg[gravitationalParameter],
                      Mul[2 * SCALE, locals.specificTotalEnergy]]


(***************************************************************************)
(* Properties of the true anomaly converted to the eccentric anomaly and   *)
(* back.                                                                   *)
(***************************************************************************)
\* The representative of an angle in (-pi, pi], the range of std::atan2.
PrincipalAngle(angle) ==
    IF Greater(ShiftMeanAnomaly(angle), pi)
    THEN Sub[ShiftMeanAnomaly(angle), twoPi]
    ELSE ShiftMeanAnomaly(angle)

\* How far two angles are apart up to a multiple of 2 pi.
AngularDistance(a, b) ==
    IF Greater(ShiftMeanAnomaly(Sub[a, b]), pi)
    THEN Sub[twoPi, ShiftMeanAnomaly(Sub[a, b])]
    ELSE ShiftMeanAnomaly(Sub[a, b])

\* The true anomalies of the conic: every one of an ellipse, the ones between
\* the asymptotes of a hyperbola, where 1 + e cos(nu) > 0.
InConversionDomain(trueAnomaly, e) ==
    Less(e, SCALE) \/ Greater(Add[SCALE, Mul[e, cos[trueAnomaly]]], 0)

\* The agreement the grid can show: ten steps, and near the parabola, where
\* sqrt(|1 - e^2|) has two digits on the grid, three tenths of a radian.
AgreementOnGrid(e) ==
    IF GreaterEq(fabs[Sub[e, SCALE]], Real(1, 10)) THEN 10 * Epsilon ELSE 300 * Epsilon

TrueAnomalyAndBackDone ==
    /\ function = TrueAnomalyAndBack /\ pc = "done"
    /\ DispatchEccentricityAccepted(eccentricity)
    /\ InConversionDomain(roundTrip.trueAnomaly, eccentricity)

RoundTripReturned ==
    /\ function = NR /\ pc = "done" /\ outcome = "returned"
    /\ isfinite(roundTrip.trueAnomaly)

\* C20: for e in [0, 1) and every true anomaly nu, in (pi, 2 pi) as well as
\* in [0, pi], the Newton-Raphson solver called on the mean anomaly of
\* E = convertTrueAnomalyToEllipticalEccentricAnomaly(nu, e) returns a value
\* within the tolerance of E itself (1e-10 in the source's doubles, ten grid
\* steps here).
C20_RoundTripReturnsEccentricAnomaly ==
    RoundTripReturned
        => LessEq(fabs[Sub[result, roundTrip.eccentricAnomaly]], 10 * Epsilon)

(***************************************************************************)
(* Properties of the Cartesian -> Keplerian conversion.                    *)
(***************************************************************************)
\* A call of convertCartesianToKeplerianElements that returned its vector.
C2KReturned == function = C2K /\ pc = "done" /\ outcome = "returned"

\* C11: for every state that the conversion classifies as circular and
\* equatorial (|e| < tolerance and |i| < tolerance, e and i exactly zero or
\* not), slots 3 and 4 of the result are NaN and slot 5 holds the true
\* longitude, the angle of the position from the x-axis.
C11_CircularEquatorialSlots ==
    (C2KReturned /\ CircularEquatorial(locals.eccentricity, locals.inclination, tolerance))
        => /\ isnan(keplerianElements[4])
           /\ isnan(keplerianElements[5])
           /\ keplerianElements[6] =
                Angle[Div[cartesianElements[1], locals.positionNorm],
                      Less(cartesianElements[2], 0)]

AngleOrNaN(angle) == isnan(angle) \/ (GreaterEq(angle, 0) /\ Less(angle, twoPi))

\* C14: for every accepted input the result has e >= 0 and 0 <= i <= pi, and
\* each of slots 3, 4 and 5, substituted angles included, is NaN or an angle
\* in the half-open interval [0, 2 * pi).
C14_ResultRanges ==
    C2KReturned
        => /\ GreaterEq(keplerianElements[2], 0)
           /\ GreaterEq(keplerianElements[3], 0)
           /\ LessEq(keplerianElements[3], pi)
           /\ AngleOrNaN(keplerianElements[4])
           /\ AngleOrNaN(keplerianElements[5])
           /\ AngleOrNaN(keplerianElements[6])

\* C16: convertCartesianToKeplerianElements fails on its input, before it
\* computes anything and without returning a vector, whenever the Cartesian
\* vector does not have exactly 6 components, fewer or more; it never fails
\* on that ground for a vector of 6 components.
C16_WrongSizeFailsFirst ==
    /\ (function = C2K /\ pc # "assert" /\ Len(cartesianElements) # 6)
           => /\ pc = "done"
              /\ outcome = "AssertionFailed"
              /\ keplerianElements = <<>>
              /\ locals = NoLocals
    /\ (function = C2K /\ Len(cartesianElements) = 6 /\ Greater(gravitationalParameter, 0))
           => ~(outcome = "AssertionFailed" /\ keplerianElements = <<>>)

\* A call with a vector of 7 components has failed with nothing computed.
C16_Witness ==
    /\ function = C2K /\ pc = "done" /\ outcome = "AssertionFailed"
    /\ Len(cartesianElements) = 7
    /\ Greater(gravitationalParameter, 0)
    /\ keplerianElements = <<>>

\* No degenerate case applies to the state.
GeneralCase ==
    /\ ~EllipticalEquatorial(locals.eccentricity, locals.inclination, tolerance)
    /\ ~CircularInclined(locals.eccentricity, locals.inclination, tolerance)
    /\ ~CircularEquatorial(locals.eccentricity, locals.inclination, tolerance)

\* The slot holds the principal angle, in [0, pi], or 2 pi minus it exactly
\* when the quantity is strictly negative; an angle that is not a number
\* stays so.
QuadrantCorrected(slot, principal, quantity) ==
    \/ isnan(principal) /\ isnan(slot)
    \/ /\ GreaterEq(principal, 0) /\ LessEq(principal, pi)
       /\ Less(quantity, 0) => slot = Sub[twoPi, principal]
       /\ ~Less(quantity, 0) => slot = principal

\* C26: in the general case the longitude of the ascending node, the argument
\* of periapsis and the true anomaly are each a principal angle A in [0, pi]
\* that is replaced by 2 pi - A exactly when its discriminating quantity is
\* strictly negative (the y-component of the node vector, the z-component of
\* the eccentricity vector, the dot product of position and velocity) and
\* left as A when that quantity is zero or positive.
C26_QuadrantBySignOfDiscriminant ==
    (C2KReturned /\ GeneralCase)
        => /\ QuadrantCorrected(
                  keplerianElements[5],
                  acos[Div[locals.ascendingNodeVector[1], locals.ascendingNodeVectorNorm]],
                  locals.ascendingNodeVector[2])
           /\ QuadrantCorrected(
                  keplerianElements[4],
                  acos[Div[Dot[locals.ascendingNodeVector, locals.eccentricityVector],
                           Mul[locals.ascendingNodeVectorNorm, locals.eccentricity]]],
                  locals.eccentricityVector[3])
           /\ QuadrantCorrected(
                  keplerianElements[6],
                  acos[Div[Dot[locals.eccentricityVector, locals.position],
                           Mul[locals.eccentricity, locals.positionNorm]]],
                  locals.positionDotVelocity)

\* A general state whose eccentricity vector points below the xy-plane: the
\* argument of periapsis is above pi; the y-component of its node vector is
\* zero: the longitude of the ascending node is not flipped.
C26_Witness ==
    /\ C2KReturned /\ GeneralCase
    /\ Less(locals.eccentricityVector[3], 0)
    /\ Greater(keplerianElements[4], pi)
    /\ locals.ascendingNodeVector[2] = 0
    /\ GreaterEq(keplerianElements[5], 0) /\ LessEq(keplerianElements[5], pi)

\* The overrides that apply to the state.
OverridesApplying ==
    { name \in {"ellipticalEquatorial", "circularInclined", "circularEquatorial"} :
        \/ /\ name = "ellipticalEquatorial"
           /\ EllipticalEquatorial(locals.eccentricity, locals.inclination, tolerance)
        \/ /\ name = "circularInclined"
           /\ CircularInclined(locals.eccentricity, locals.inclination, tolerance)
        \/ /\ name = "circularEquatorial"
           /\ CircularEquatorial(locals.eccentricity, locals.inclination, tolerance) }

\* The step leaves every slot of the result as it is, but for the one named.
OnlySlotWritten(slot) ==
    \A k \in 1 .. 6 : k # slot => keplerianElements'[k] = keplerianElements[k]

C2KSlotZeroStored ==
    /\ function = C2K
    /\ pc \in {"node", "periapsis", "equatorial", "latitude", "longitude", "return", "done"}
    /\ outcome \in {"running", "returned"}

\* C15: the two conversions classify an eccentricity as parabolic by the same
\* test, for every e and tolerance, |e - 1| = tolerance included: the inverse
\* reads slot 0 as the semi-latus rectum exactly when the test of the forward
\* conversion makes it store the semi-latus rectum there, and the forward
\* conversion stores the semi-latus rectum exactly when the test of the
\* inverse makes it read one.
C15_SameParabolaTest ==
    /\ (function = K2C /\ pc = "done")
           => (branch = "semiLatusRectum"
                  <=> ~NotParabolic(keplerianElements[2], tolerance))
    /\ C2KSlotZeroStored
           => ((locals.semiMajorAxis = Infinity
                   /\ keplerianElements[1] = locals.semiLatusRectum)
                  <=> ~KeplerianNotParabolic(locals.eccentricity, tolerance))

\* The inverse conversion returned for an eccentricity with |e - 1| equal to
\* the tolerance, having read slot 0 as the semi-latus rectum.
C15_Witness ==
    /\ function = K2C /\ pc = "done" /\ outcome = "returned"
    /\ fabs[Sub[keplerianElements[2], SCALE]] = tolerance
    /\ branch = "semiLatusRectum"
    /\ locals.semiLatusRectum = keplerianElements[1]

(***************************************************************************)
(* Properties of the round trip of the elements.                           *)
(***************************************************************************)
\* Neither circular nor parabolic nor equatorial, within the tolerance.
NonDegenerateElements(e, inclination, limit) ==
    /\ Greater(fabs[e], limit)
    /\ Greater(fabs[Sub[e, SCALE]], limit)
    /\ Greater(fabs[inclination], limit)
    /\ Greater(fabs[Sub[inclination, pi]], limit)

\* A round trip of the elements has ended: in the first conversion, whose
\* locals hold the eccentricity and the angular momentum, or in the second,
\* whose argument holds eccentricity and inclination.
CartesianAndBackDone ==
    /\ roundTrip.state # <<>> /\ pc = "done"
    /\ \/ /\ function = C2K /\ outcome # "returned"
          /\ NonDegenerateElements(
                 locals.eccentricity,
                 acos[Div[locals.angularMomentum[3], locals.angularMomentumNorm]],
                 tolerance)
       \/ /\ function = K2C
          /\ NonDegenerateElements(keplerianElements[2], keplerianElements[3], tolerance)

\* C22: for every Cartesian state x that is not circular, not equatorial and
\* not parabolic, and mu > 0, convertKeplerianToCartesianElements(
\* convertCartesianToKeplerianElements(x, mu), mu) is returned and equals x
\* componentwise within the tolerance (1e-9 relative in the source's doubles,
\* ten grid steps here).
C22_ElementsRoundTrip ==
    CartesianAndBackDone
        => /\ function = K2C
           /\ outcome = "returned"
           /\ \A k \in 1 .. 6 :
                LessEq(fabs[Sub[cartesianElements[k], roundTrip.state[k]]], 10 * Epsilon)

(***************************************************************************)
(* Properties of the conversions as pure functions.                        *)
(***************************************************************************)
RECURSIVE RunAlone(_)
\* What an invocation hands back when it runs from its entry to its end with
\* nothing else running.
RunAlone(frame) == IF frame.pc = "done" THEN frame ELSE RunAlone(SolverStep(frame))

\* Both interleaved invocations have ended.
InterleavedDone == function = NR /\ pc = "done" /\ peer.pc = "done"

MeanAnomalyAt(e, E) == Sub[E, Mul[e, sin[E]]]

\* 2^n
RECURSIVE PowerOfTwo(_)
PowerOfTwo(n) == IF n = 0 THEN 1 ELSE 2 * PowerOfTwo(n - 1)

\* The search is in its loop, J iterations done, on a folded mean anomaly.
InSearch ==
    /\ function = BS /\ pc = "loop"
    /\ isfinite(bisection.M) /\ isfinite(bisection.E0)

RECURSIVE Searched(_, _, _, _, _, _)
Searched(M, E, E0, D, J, n) ==
    IF BisectionLoopCondition(J, n)
    THEN Searched(M, E, Halved[M, E, E0, D], Mul[D, Real(5, 10)], J + 1, n)
    ELSE E0

\* Lines 870-920 for a mean anomaly whose (int) conversion is defined: the
\* value the bisection solver returns for (e, meanAnomaly, n).
SolvedByBisection(e, meanAnomaly, n) ==
    LET shifted == ShiftMeanAnomalyBS(meanAnomaly)
        whole == CHOOSE w \in IntCastOutcomes(Div[fabs[shifted], twoPi]) : TRUE
        folded == Folded[Wrapped[Unwound[shifted, whole]]]
    IN  Mul[Searched(folded[1], e, Mul[pi, Real(5, 10)], Mul[pi, Real(25, 100)], 0, n),
            folded[2]]

\* The bisection solver returned for a valid eccentricity.
BSReturned ==
    /\ function = BS /\ pc = "done" /\ outcome = "returned"
    /\ BisectionEccentricityValid(eccentricity)

UnwindingKeepsSide ==
    \A whole \in IntCastOutcomes(Div[fabs[meanAnomalyShifted], twoPi]) :
        Greater(Wrapped[Unwound[meanAnomalyShifted, whole]], pi)
            <=> Greater(meanAnomalyShifted, pi)

=============================================================================
